---- MODULE Spec2Model ----
(***************************************************************************)
(* Plan-execution engine of the transportation assistant                   *)
(* (src/agents/agents.py, class ExecutionAgent): the autopatch pass over   *)
(* the tools plan, the placeholder resolver, the step dispatcher, the slot *)
(* merge policy and the execution loop.                                    *)
(*                                                                         *)
(* Python values are tagged records (None, numbers, booleans, strings,     *)
(* dicts, lists).  A string used as a step argument is a sequence of parts *)
(* (literal text, a ${path} or {{path}} expression, or the string form of  *)
(* a value); an utterance is a sequence of text fragments, and the         *)
(* substring tests of the code are contiguous-subsequence tests on it.     *)
(***************************************************************************)
EXTENDS Integers, Sequences, FiniteSets, TLC

VARIABLES
    query,          \* world_state.query["raw"], the utterance
    steps,          \* world_state.context["plan"]["steps"], the planner's steps
    tools_plan,     \* the tools plan the executor patches and runs
    oracle,         \* the decision oracle's answer (self._llm_json_request)
    world_state,    \* the Blackboard as the run sees it (slots, context, query)
    current_slots,  \* the slot snapshot (world_state.slots.model_dump())
    results,        \* the ExecutionResult being accumulated
    idx,            \* position of the step loop in tools_plan (1-based)
    pc,             \* position of the run
    mode,           \* "llm" (patched tools plan) or "fallback" (planner steps)
    invoked,        \* history: every tool routine called, in order, with its args
    log,            \* history: one record per handled step
    snap,           \* history: the plan at the stages of the autopatch pass
    substIn,        \* resolver harness: the value given to substitute_placeholders
    substOut,       \* resolver harness: the value it returned
    toolcfg,        \* how the tools of this run behave (see the tool boundary)
    fails           \* number of tool failures the environment has caused so far

vars == <<query, steps, tools_plan, oracle, world_state, current_slots, results,
          idx, pc, mode, invoked, log, snap, substIn, substOut, toolcfg, fails>>

-----------------------------------------------------------------------------
(* Python values *)

None == [t |-> "none"]
Num(n) == [t |-> "num", n |-> n]
Bool(b) == [t |-> "bool", b |-> b]
Str(s) == [t |-> "str", s |-> s]
Dict(d) == [t |-> "dict", d |-> d]
List(l) == [t |-> "list", l |-> l]

EmptyDict == <<>>

\* bool(v)
Truthy(v) ==
    CASE v.t = "none" -> FALSE
      [] v.t = "num"  -> v.n # 0
      [] v.t = "bool" -> v.b
      [] v.t = "str"  -> Len(v.s) > 0
      [] v.t = "dict" -> DOMAIN v.d # {}
      [] v.t = "list" -> Len(v.l) > 0
      [] OTHER        -> TRUE

\* d.get(k) on a mapping held as a function
Get(d, k) == IF k \in DOMAIN d THEN d[k] ELSE None

\* v.get(k) on a value that the code expects to be a dict
VGet(v, k) == IF v.t = "dict" THEN Get(v.d, k) ELSE None

\* d[k] = v
Put(d, k, v) == [x \in (DOMAIN d) \cup {k} |-> IF x = k THEN v ELSE d[x]]

\* d.pop(k, None)
Pop(d, k) == [x \in (DOMAIN d) \ {k} |-> d[x]]

\* d.update(e)
Update(d, e) == [x \in (DOMAIN d) \cup (DOMAIN e) |-> IF x \in DOMAIN e THEN e[x] ELSE d[x]]

-----------------------------------------------------------------------------
(* Strings that may carry placeholders *)

Lit(x) == [k |-> "lit", x |-> x]
NoIndex == [t |-> "noix"]
BadIndex == [t |-> "badix"]
Key(name) == [key |-> name, ix |-> NoIndex]
At(name, i) == [key |-> name, ix |-> i]
Dollar(path) == [k |-> "ph", syn |-> "dollar", path |-> path]
Brace(path) == [k |-> "ph", syn |-> "brace", path |-> path]
Repr(v) == [k |-> "repr", v |-> v]

\* Plain text
Text(x) == Str(<<Lit(x)>>)

\* str(v)
StrOf(v) == IF v.t = "str" THEN v.s ELSE <<Repr(v)>>

IsDollar(p) == p.k = "ph" /\ p.syn = "dollar"
IsBrace(p) == p.k = "ph" /\ p.syn = "brace"
IsSpace(p) == p.k = "lit" /\ \A i \in 1..Len(p.x) : p.x[i] = " "

RECURSIVE LStrip(_)
LStrip(s) == IF s # <<>> /\ IsSpace(Head(s)) THEN LStrip(Tail(s)) ELSE s

RECURSIVE RStrip(_)
RStrip(s) ==
    IF s # <<>> /\ IsSpace(s[Len(s)]) THEN RStrip(SubSeq(s, 1, Len(s) - 1)) ELSE s

\* value.strip()
Strip(s) == RStrip(LStrip(s))

RECURSIVE Flatten(_)
Flatten(ss) == IF ss = <<>> THEN <<>> ELSE Head(ss) \o Flatten(Tail(ss))

-----------------------------------------------------------------------------
(* Placeholder resolver: substitute_placeholders and its _lookup_path *)

Miss == [ok |-> FALSE, v |-> None]
Hit(v) == [ok |-> TRUE, v |-> v]

\* One pass of _lookup_path over one source: walk the dotted path, a part
\* being a key or key[index]; any miss raises and ends the pass.
RECURSIVE Walk(_, _)
Walk(cur, parts) ==
    IF parts = <<>> THEN Hit(cur)
    ELSE LET p == Head(parts) IN
         IF cur.t = "dict" /\ p.key \in DOMAIN cur.d
         THEN LET nxt == cur.d[p.key] IN
              IF p.ix = NoIndex THEN Walk(nxt, Tail(parts))
              ELSE IF nxt.t = "list" /\ p.ix.t = "num" /\ p.ix.n + 1 <= Len(nxt.l)
                   THEN Walk(nxt.l[p.ix.n + 1], Tail(parts))
                   ELSE Miss
         ELSE Miss

\* The Blackboard as the object the third pass walks (attributes as keys)
WorldStateValue(ws) ==
    Dict([slots |-> Dict(ws.slots), context |-> Dict(ws.context),
          query |-> Dict([raw |-> Text(ws.query)])])

\* The three passes, in the code's order: results['slots'], current_slots,
\* world_state.  The first pass that completes returns its value, None included.
WalkWorldState(ws, path) ==
    LET r3 == Walk(WorldStateValue(ws), path) IN IF r3.ok THEN r3.v ELSE None

WalkCurrentSlots(cs, ws, path) ==
    LET r2 == Walk(Dict(cs), path) IN IF r2.ok THEN r2.v ELSE WalkWorldState(ws, path)

lookup_path(path, ws, cs, res) ==
    LET r1 == Walk(Dict(res.slots), path)
    IN IF r1.ok THEN r1.v ELSE WalkCurrentSlots(cs, ws, path)

\* A replacer that puts in the string form of whatever the lookup returns
ReplacePartAlways(p, ws, cs, res) == StrOf(lookup_path(p.path, ws, cs, res))

\* replacer / replacer2: the string form of the value found, or the match itself
ReplacePart(p, ws, cs, res) ==
    LET found == lookup_path(p.path, ws, cs, res)
    IN IF found # None THEN StrOf(found) ELSE <<p>>

SubBrace(s, ws, cs, res) ==
    Flatten([i \in 1..Len(s) |->
                IF IsBrace(s[i]) THEN ReplacePart(s[i], ws, cs, res) ELSE <<s[i]>>])

SubDollar(s, ws, cs, res) ==
    Flatten([i \in 1..Len(s) |->
                IF IsDollar(s[i]) THEN ReplacePart(s[i], ws, cs, res) ELSE <<s[i]>>])

HasBrace(s) == \E i \in 1..Len(s) : IsBrace(s[i])
HasDollar(s) == \E i \in 1..Len(s) : IsDollar(s[i])
FullDollar(s) == Len(Strip(s)) = 1 /\ IsDollar(Strip(s)[1])

substitute_placeholders(value, ws, cs, res) ==
    IF value.t # "str" THEN value
    ELSE IF HasBrace(value.s) THEN Str(SubBrace(value.s, ws, cs, res))
    ELSE IF FullDollar(value.s)
         THEN LET found == lookup_path(Strip(value.s)[1].path, ws, cs, res)
              IN IF found # None THEN found ELSE value
    ELSE IF HasDollar(value.s) THEN Str(SubDollar(value.s, ws, cs, res))
    ELSE value

\* {k: substitute_placeholders(v, ...) for k, v in tool_args.items()}
SubstArgs(args, ws, cs, res) ==
    [k \in DOMAIN args |-> substitute_placeholders(args[k], ws, cs, res)]

-----------------------------------------------------------------------------
(* Utterances: text as a sequence of fragments; `p in s` is Contains(s, p) *)

\* str.lower() on the fragments that carry upper-case letters
LowerFrag(x) ==
    CASE x = "I"      -> "i"
      [] x = "Find"   -> "find"
      [] x = "Burger" -> "burger"
      [] x = "King"   -> "king"
      [] x = "Main"   -> "main"
      [] x = "St"     -> "st"
      [] x = "Queens" -> "queens"
      [] OTHER        -> x

Lower(s) == [i \in 1..Len(s) |-> LowerFrag(s[i])]

\* Fragments that are a single character
OneChar == {" ", "i", "I", "w", "t", "?", ".", "!"}

\* len(s) > 1, in characters
LongerThanOne(s) == Len(s) > 1 \/ (Len(s) = 1 /\ s[1] \notin OneChar)

MinOf(S) == CHOOSE m \in S : \A n \in S : m <= n

\* Least position >= from where p occurs in s, 0 when it does not
Find(s, p, from) ==
    LET C == {i \in from..(Len(s) - Len(p) + 1) : SubSeq(s, i, i + Len(p) - 1) = p}
    IN IF C = {} THEN 0 ELSE MinOf(C)

Contains(s, p) == Find(s, p, 1) # 0

RECURSIVE StripL(_, _)
StripL(s, cs) == IF s # <<>> /\ Head(s) \in cs THEN StripL(Tail(s), cs) ELSE s

RECURSIVE StripR(_, _)
StripR(s, cs) ==
    IF s # <<>> /\ s[Len(s)] \in cs THEN StripR(SubSeq(s, 1, Len(s) - 1), cs) ELSE s

\* s.strip() and s.strip('?.!')
StripU(s) == StripR(StripL(s, {" "}), {" "})
StripPunct(s) == StripR(StripL(s, {"?", ".", "!"}), {"?", ".", "!"})

NoMatch == [ok |-> FALSE, g1 |-> <<>>, g2 |-> <<>>]

\* re.search('a (.+?) b (.+)', s, IGNORECASE): leftmost a, then the nearest b
\* that leaves both groups non-empty
Starts(l, p, lo, hi) == {i \in lo..hi : SubSeq(l, i, i + Len(p) - 1) = p}

Groups2(s, i, j, a, b) ==
    [ok |-> TRUE, g1 |-> SubSeq(s, i + Len(a), j - 1), g2 |-> SubSeq(s, j + Len(b), Len(s))]

Match2(s, l, C, a, b) ==
    IF C = {} THEN NoMatch
    ELSE Groups2(s, MinOf(C),
                 MinOf(Starts(l, b, MinOf(C) + Len(a) + 1, Len(s) - Len(b))), a, b)

Search2(s, a, b) ==
    Match2(s, Lower(s),
           {i \in Starts(Lower(s), a, 1, Len(s) - Len(a) + 1) :
               Starts(Lower(s), b, i + Len(a) + 1, Len(s) - Len(b)) # {}},
           a, b)

\* re.search('a (.+)', s, IGNORECASE): leftmost a with text after it
Match1(s, C, a) ==
    IF C = {} THEN NoMatch
    ELSE [ok |-> TRUE, g1 |-> SubSeq(s, MinOf(C) + Len(a), Len(s)), g2 |-> <<>>]

Search1(s, a) == Match1(s, Starts(Lower(s), a, 1, Len(s) - Len(a)), a)

\* BRANDS (agents.py line 653)
BRANDS ==
    { <<"burger", " ", "king">>,
      <<"dunkin">>,
      <<"dunkin", " ", "donuts">>,
      <<"mcdonalds">>,
      <<"mcdonald">>,
      <<"starbucks">>,
      <<"pizza">>,
      <<"coffee">>,
      <<"cafe">>,
      <<"bagel">>,
      <<"donuts">>,
      <<"pharmacy">>,
      <<"7-eleven">> }

\* NEAR_TERMS (agents.py line 654)
NEAR_TERMS ==
    { <<"near", " ", "me">>,
      <<"nearby">>,
      <<"closest">>,
      <<"nearest">>,
      <<"around">> }

\* the keyword list of wants_directions
DirectionsKeywords ==
    { <<"directions">>,
      <<"how", " ", "do", " ", "i", " ", "get">>,
      <<"how", " ", "to", " ", "get">>,
      <<"route">>,
      <<"take", " ", "me">>,
      <<"get", " ", "to">>,
      <<"navigate">>,
      <<"go", " ", "to">>,
      <<"how", " ", "do", " ", "i", " ", "go">>,
      <<"how", " ", "can", " ", "i", " ", "get">>,
      <<"how", " ", "can", " ", "i", " ", "go">>,
      <<"how", " ", "do", " ", "i", " ", "reach">>,
      <<"how", " ", "can", " ", "i", " ", "reach">>,
      <<"how", " ", "do", " ", "i", " ", "travel">>,
      <<"how", " ", "can", " ", "i", " ", "travel">>,
      <<"transit">>,
      <<"walk">>,
      <<"bus">>,
      <<"subway">>,
      <<"train">>,
      <<"drive">>,
      <<"driving">>,
      <<"walking">>,
      <<"public", " ", "transport">>,
      <<"public", " ", "transit">>,
      <<"commute">>,
      <<"travel", " ", "to">>,
      <<"show", " ", "me", " ", "directions">>,
      <<"show", " ", "directions">>,
      <<"show", " ", "route">>,
      <<"show", " ", "me", " ", "how">>,
      <<"show", " ", "me", " ", "the", " ", "way">>,
      <<"show", " ", "me", " ", "the", " ", "route">>,
      <<"show", " ", "me", " ", "the", " ", "directions">> }

\* the phrases of _is_where_am_i
WhereAmIPhrases ==
    { <<"w", "here", " ", "am", " ", "i">>,
      <<"what", " ", "is", " ", "my", " ", "location">>,
      <<"w", "here", " ", "am", " ", "i", " ", "now">> }

\* the phrases of the weather near-me test
NearMePhrases ==
    { <<"near", " ", "me">>,
      <<"here">>,
      <<"my", " ", "location">>,
      <<"current", " ", "location">> }

\* the alternatives of the 'to X' pattern, in the pattern's order
ToAlternatives ==
    << <<"to">>,
       <<"get", " ", "to">>,
       <<"how", " ", "to", " ", "get", " ", "to">>,
       <<"how", " ", "do", " ", "i", " ", "get", " ", "to">>,
       <<"towards">>,
       <<"go", " ", "to">> >>

\* is_poi_intent
is_poi_intent(utter) ==
    LET u == Lower(utter)
    IN (\E t \in NEAR_TERMS : Contains(u, t)) \/ (\E b \in BRANDS : Contains(u, b))

\* _is_where_am_i
IsWhereAmI(q) ==
    q # <<>> /\ \E p \in WhereAmIPhrases : Contains(StripU(Lower(q)), p)

\* weather_near_me
WeatherNearMe(q) ==
    LET ql == Lower(q)
    IN Contains(ql, <<"weather">>) /\ \E kw \in NearMePhrases : Contains(ql, kw)

\* wants_directions
WantsDirections(q) == \E kw \in DirectionsKeywords : Contains(Lower(q), kw)

-----------------------------------------------------------------------------
(* Plan steps and the autopatch pass *)

Step(name, args) == [name |-> name, args |-> args]

MaxResults == 5

FirstPlaceId ==
    Str(<<Dollar(<<Key("context"), Key("places"), At("results", Num(0)), Key("placeId")>>)>>)

HasStep(plan, name) == \E i \in 1..Len(plan) : plan[i].name = name

\* Explicit origin and destination named in the utterance (agents.py 682-705).
\* The third pattern, 'get to X from Y', can only match where the second does.
Ends(m1, m2, mf, mt) ==
    LET o1 == IF m1.ok THEN StripU(m1.g1) ELSE IF m2.ok THEN StripU(m2.g2) ELSE <<>>
        d1 == IF m1.ok THEN StripU(m1.g2) ELSE IF m2.ok THEN StripU(m2.g1) ELSE <<>>
    IN [origin |-> IF o1 # <<>> THEN o1 ELSE IF mf.ok THEN StripU(mf.g1) ELSE <<>>,
        dest   |-> IF d1 # <<>> THEN d1 ELSE IF mt.ok THEN StripU(mt.g1) ELSE <<>>]

ExplicitEnds(utter) ==
    Ends(Search2(utter, <<"from", " ">>, <<" ", "to", " ">>),
         Search2(utter, <<"to", " ">>, <<" ", "from", " ">>),
         Search1(utter, <<"from", " ">>),
         Search1(utter, <<"to", " ">>))

GeocodeStep(addr, slot) == Step("Geocode", [address |-> Text(addr), slot |-> Text(<<slot>>)])

PlacesStep(q) ==
    Step("PlacesSearch",
         [query |-> q, rankBy |-> Text(<<"distance">>), maxResults |-> Num(MaxResults)])

\* The Geocode steps for the explicit origin and destination
GeocodeEnds(ends) ==
    (IF ends.origin # <<>> THEN <<GeocodeStep(ends.origin, "origin")>> ELSE <<>>)
    \o (IF ends.dest # <<>> THEN <<GeocodeStep(ends.dest, "destination")>> ELSE <<>>)

\* A rewrite that leaves the query on the Directions step
ToFirstPlaceKeepsQuery(step, q, has_places_search) ==
    (IF has_places_search THEN <<>> ELSE <<PlacesStep(q)>>)
    \o <<Step(step.name, Put(step.args, "destinationPlaceId", FirstPlaceId))>>

\* Rules A and B: the PlacesSearch step, unless the plan has one, and the
\* Directions step rewritten to the first place found
ToFirstPlace(step, q, has_places_search) ==
    (IF has_places_search THEN <<>> ELSE <<PlacesStep(q)>>)
    \o <<Step(step.name,
              Pop(Put(Pop(step.args, "query"), "destinationPlaceId", FirstPlaceId),
                  "destination"))>>

\* What autopatch_places emits for one Directions step of the plan
PatchDirections(step, utter, has_places_search) ==
    GeocodeEnds(ExplicitEnds(utter))
    \o (IF "query" \in DOMAIN step.args
        THEN ToFirstPlace(step, step.args["query"], has_places_search)
        ELSE IF /\ \A k \in {"destination", "destinationPlaceId", "destinationLatLng"} :
                      k \notin DOMAIN step.args
                /\ is_poi_intent(utter)
        THEN ToFirstPlace(step, Text(utter), has_places_search)
        ELSE <<step>>)

\* A pass that leaves the plan as the planner wrote it
autopatch_places_skipped(plan, utter) == plan

autopatch_places(plan, utter) ==
    LET has_places_search == HasStep(plan, "PlacesSearch")
    IN Flatten([i \in 1..Len(plan) |->
                   IF plan[i].name = "Directions"
                   THEN PatchDirections(plan[i], utter, has_places_search)
                   ELSE <<plan[i]>>])

\* TOOL_ALIASES / resolve_tool_name
resolve_tool_name(name) ==
    IF name \in {"Places", "POISearch", "FindNearestPOI"} THEN "PlacesSearch" ELSE name

HasCoords(v) == Truthy(v) /\ Truthy(VGet(v, "lat")) /\ Truthy(VGet(v, "lng"))

GeolocateStep == Step("Geolocate", EmptyDict)

\* A rule that asks for a Geolocate whatever the origin slot holds
NearOfAlwaysGeolocates(step, origin) ==
    IF resolve_tool_name(step.name) = "PlacesSearch" /\ ~Truthy(Get(step.args, "near"))
    THEN <<GeolocateStep, step>>
    ELSE <<step>>

\* A rule that looks at the snapshot of the run in progress instead of the
\* origin of the Blackboard it was given
NearOfFromSnapshot(step, origin) ==
    IF resolve_tool_name(step.name) = "PlacesSearch" /\ ~Truthy(Get(step.args, "near"))
    THEN IF HasCoords(Get(current_slots, "origin"))
         THEN <<Step(step.name,
                     Put(step.args, "near",
                         Dict([lat |-> VGet(Get(current_slots, "origin"), "lat"),
                               lng |-> VGet(Get(current_slots, "origin"), "lng")])))>>
         ELSE <<GeolocateStep, step>>
    ELSE <<step>>

NearOf(step, origin) ==
    IF resolve_tool_name(step.name) = "PlacesSearch" /\ ~Truthy(Get(step.args, "near"))
    THEN IF HasCoords(origin)
         THEN <<Step(step.name,
                     Put(step.args, "near",
                         Dict([lat |-> VGet(origin, "lat"), lng |-> VGet(origin, "lng")])))>>
         ELSE <<GeolocateStep, step>>
    ELSE <<step>>

ensure_places_has_near(plan, slots) ==
    Flatten([i \in 1..Len(plan) |-> NearOf(plan[i], Get(slots, "origin"))])

\* The steps of the plan the two passes were given, as the passes leave them.
\* Both passes take the step's own args dict (step.setdefault('args', {})),
\* write to it and append the step itself to the new list (agents.py 710,
\* 723-738, 773-781): the step given is the last one emitted for it.
Appended(emitted) == emitted[Len(emitted)]

GivenSteps(plan, utter, slots) ==
    [i \in 1..Len(plan) |->
        Appended(NearOf(Appended(IF plan[i].name = "Directions"
                                 THEN PatchDirections(plan[i], utter,
                                                      HasStep(plan, "PlacesSearch"))
                                 ELSE <<plan[i]>>),
                        Get(slots, "origin")))]

\* Plain text of a string value (the empty text for anything else)
RECURSIVE PlainParts(_)
PlainParts(s) ==
    IF s = <<>> THEN <<>>
    ELSE (IF Head(s).k = "lit" THEN Head(s).x ELSE <<>>) \o PlainParts(Tail(s))

Plain(v) == IF v.t = "str" THEN PlainParts(v.s) ELSE <<>>

WordStart(l, i) == i = 1 \/ l[i - 1] \in {" ", "?", ".", "!", ","}

\* Whether alternative k of the 'to X' pattern matches at position i
AltAt(l, i, k) ==
    LET alt == ToAlternatives[k]
    IN /\ WordStart(l, i)
       /\ i + Len(alt) <= Len(l)
       /\ SubSeq(l, i, i + Len(alt) - 1) = alt
       /\ l[i + Len(alt)] = " "

Separators ==
    { <<" ", "via", " ">>, <<" ", "by", " ">>, <<" ", "from", " ">>, <<" ", "in", " ">> }

\* re.split(...)[0]
BeforeSeparator(s) ==
    LET l == Lower(s)
        C == {Find(l, sep, 1) : sep \in Separators} \ {0}
    IN IF C = {} THEN s ELSE SubSeq(s, 1, MinOf(C) - 1)

\* _extract_address_from_query; <<>> stands for None and for the empty string
ToStarts(l) == {i \in 1..Len(l) : \E k \in 1..Len(ToAlternatives) : AltAt(l, i, k)}

AddressAt(q, i, k) ==
    StripU(BeforeSeparator(StripPunct(StripU(SubSeq(q, i + Len(ToAlternatives[k]), Len(q))))))

AddressFrom(q, l, i) ==
    AddressAt(q, i, MinOf({k \in 1..Len(ToAlternatives) : AltAt(l, i, k)}))

extract_address_from_query(q) ==
    IF ToStarts(Lower(q)) = {} THEN <<>>
    ELSE AddressFrom(q, Lower(q), MinOf(ToStarts(Lower(q))))

HasGeocodeDestination(plan) ==
    \E i \in 1..Len(plan) :
        /\ plan[i].name = "Geocode"
        /\ \/ Get(plan[i].args, "slot") = Text(<<"destination">>)
           \/ Truthy(Get(plan[i].args, "address"))
           \/ Truthy(Get(plan[i].args, "query"))

\* The candidate address of the stale-destination guard: the oracle's answer
\* when it says to update, else the 'to X' heuristic
Heuristic(extracted) ==
    LET low == StripU(Lower(extracted))
    IN IF extracted # <<>> /\ low # <<>> /\ low \notin {<<"me">>, <<"here">>}
          /\ LongerThanOne(low)
       THEN extracted
       ELSE <<>>

AddressCandidate(q, answer) ==
    IF answer.t = "dict" /\ Truthy(answer) /\ Truthy(VGet(answer, "update_destination"))
    THEN (IF Truthy(VGet(answer, "address")) THEN Plain(VGet(answer, "address")) ELSE <<>>)
    ELSE Heuristic(extract_address_from_query(q))

\* The stale-destination guard (agents.py 817-884)
PrependGeocode(plan, cand, existing_name) ==
    IF /\ HasStep(plan, "Directions")
       /\ ~HasGeocodeDestination(plan)
       /\ cand # <<>>
       /\ (~Truthy(existing_name) \/ ~Contains(Lower(Plain(existing_name)), Lower(cand)))
    THEN <<GeocodeStep(cand, "destination")>> \o plan
    ELSE plan

StaleDestinationGuard(plan, q, answer, slots) ==
    PrependGeocode(plan, AddressCandidate(q, answer),
                   VGet(Get(slots, "destination"), "name"))

NotNamed(plan, name) ==
    LET keep(s) == s.name # name IN SelectSeq(plan, keep)

InsertAt(plan, i, step) == SubSeq(plan, 1, i - 1) \o <<step>> \o SubSeq(plan, i, Len(plan))

\* A patch that puts the missing ReverseGeocode step at the end of the plan
WhereAmIPatchAppends(plan, q) ==
    IF IsWhereAmI(q)
    THEN LET p1 == <<GeolocateStep>> \o NotNamed(plan, "Geolocate")
         IN IF HasStep(p1, "ReverseGeocode") THEN p1
            ELSE Append(p1, Step("ReverseGeocode", EmptyDict))
    ELSE plan

\* The where-am-I patch (agents.py 1003-1012)
WhereAmIPatch(plan, q) ==
    IF IsWhereAmI(q)
    THEN LET p1 == <<GeolocateStep>> \o NotNamed(plan, "Geolocate")
         IN IF HasStep(p1, "ReverseGeocode") THEN p1
            ELSE InsertAt(p1, 2, Step("ReverseGeocode", EmptyDict))
    ELSE plan

\* A patch that puts the Geolocate step at the front of the plan
\* A weather patch that the utterance alone sets off
WeatherPatchNearMeOnly(plan, q) ==
    LET W == {i \in 1..Len(plan) : plan[i].name = "Weather" /\ WeatherNearMe(q)}
    IN IF W = {} THEN plan
       ELSE IF ~HasStep(SubSeq(plan, 1, MinOf(W) - 1), "Geolocate")
            THEN InsertAt(plan, MinOf(W), GeolocateStep)
            ELSE plan

WeatherPatchAtFront(plan, q) ==
    IF HasStep(plan, "Weather") /\ ~HasStep(plan, "Geolocate")
    THEN <<GeolocateStep>> \o plan ELSE plan

\* The weather patch (agents.py 1015-1031): the first Weather step that the
\* utterance or its missing coordinates single out
WeatherPatch(plan, q) ==
    LET W == {i \in 1..Len(plan) :
                 /\ plan[i].name = "Weather"
                 /\ (WeatherNearMe(q) \/ ~Truthy(Get(plan[i].args, "coordinates")))}
    IN IF W = {} THEN plan
       ELSE LET i == MinOf(W)
            IN IF ~HasStep(SubSeq(plan, 1, i - 1), "Geolocate")
               THEN InsertAt(plan, i, GeolocateStep)
               ELSE plan

\* only_places (agents.py 1036-1049)
OnlyPlaces(plan, q) ==
    /\ Len(plan) >= 1
    /\ plan[1].name = "PlacesSearch"
    /\ (~HasStep(plan, "Directions") \/ (Len(plan) = 2 /\ plan[2].name = "Directions"))
    /\ ~WantsDirections(q)

-----------------------------------------------------------------------------
(* The tool boundary: what each routine returns when it does not raise.    *)
(* cfg.tag says whether the location tools tag their values with           *)
(* __source; cfg.places is the number of places a search finds.            *)

RECURSIVE JoinFrags(_)
JoinFrags(s) == IF s = <<>> THEN "" ELSE Head(s) \o JoinFrags(Tail(s))

\* A string value as a dict key; text that still carries a placeholder or a
\* value's string form is no slot name
StrKey(v) ==
    IF \A i \in 1..Len(v.s) : v.s[i].k = "lit" THEN JoinFrags(Plain(v)) ELSE "${}"

Tagged(d, cfg, source) ==
    IF cfg.tag THEN Put(d, "__source", Text(<<source>>)) ELSE d

\* geolocate_user (location_tool.py 95-156)
GeolocateOut(cfg) ==
    Dict([slots |-> Dict([origin |->
                      Dict(Tagged([lat |-> Num(40), lng |-> Num(-74),
                                   name |-> Text(<<"Current", " ", "Location">>)],
                                  cfg, "geolocate"))]),
          context |-> Dict([accuracy |-> Num(1000),
                            accuracy_note |-> Text(<<"IP-based", " ", "location">>)]),
          raw |-> Dict([accuracy |-> Num(1000)])])

\* geocode_place (location_tool.py 12-92)
GeocodeOut(address, slot, cfg) ==
    Dict([slots |-> Dict(Put(EmptyDict, slot,
                      Dict(Tagged([lat |-> Num(41), lng |-> Num(-73), name |-> address],
                                  cfg, "geocode")))),
          raw |-> Dict([formatted_address |-> address])])

\* reverse_geocode (location_tool.py 159-248)
ReverseGeocodeOut(lat, lng) ==
    Dict([context |-> Dict([reverse_geocode_result |->
                      Dict([formatted_address |-> Text(<<"1", " ", "Main", " ", "St">>),
                            coordinates |-> Dict([lat |-> lat, lng |-> lng])])]),
          raw |-> Dict([formatted_address |-> Text(<<"1", " ", "Main", " ", "St">>)])])

\* weather_current (weather_tool.py 68-93)
WeatherOut(lat, lng, units) ==
    Dict([context |-> Dict([lastWeather |->
                      Dict([lat |-> lat, lng |-> lng, units |-> units,
                            summary |-> Text(<<"Sunny">>), temp |-> Num(70)])])])

PlaceItem(i) ==
    Dict([placeId |-> Text(<<"PLACE_" \o ToString(i)>>),
          name |-> Text(<<"Burger", " ", "King">>),
          address |-> Text(<<ToString(i), " ", "Main", " ", "St">>),
          distanceMeters |-> Num(100 * i)])

\* places_search (places_tool.py 80-206)
PlacesSearchOut(args, cfg) ==
    IF ~Truthy(Get(args, "near"))
    THEN Dict([status |-> Text(<<"MISSING_INFO">>),
               hints |-> Dict([need |-> Text(<<"origin">>)]),
               context |-> Dict([places |-> Dict([results |-> List(<<>>),
                                                  query |-> Get(args, "query"),
                                                  near |-> None])])])
    ELSE Dict([status |-> Text(<<"OK">>),
               context |-> Dict([places |->
                   Dict([results |-> List([i \in 1..cfg.places |-> PlaceItem(i)]),
                         query |-> Get(args, "query"),
                         near |-> Get(args, "near")])])])

\* place_details (places_tool.py 209-265)
PlaceDetailsOut(args) ==
    Dict([status |-> Text(<<"OK">>),
          context |-> Dict([placeDetails |-> Dict([placeId |-> Get(args, "placeId")])])])

\* directions (directions_tool.py 239-613)
DirectionsOut(destination, origin) ==
    IF destination = Str(<<>>)
    THEN Dict([status |-> Text(<<"MISSING_INFO">>),
               reason |-> Text(<<"No", " ", "destination", " ", "provided.">>)])
    ELSE Dict([context |-> Dict([directions |->
                   Dict([destination |-> Dict([lat |-> Num(41), lng |-> Num(-73),
                                               name |-> destination]),
                         origin |-> Dict([lat |-> Num(40), lng |-> Num(-74),
                                          name |-> origin]),
                         routes |-> List(<<>>)])])])

\* handle_conversation (conversation_tool.py)
ConversationOut(message) ==
    Dict([context |-> Dict([conversation_response |->
              Dict([original_message |-> message, method |-> Text(<<"fallback">>)])])])

-----------------------------------------------------------------------------
(* Merging a tool's output, and the step dispatcher _execute_tool_step *)

\* A merge that never overwrites: a context key that is taken gets a suffix
merge_tool_output_suffixing(res, tool_name, out) ==
    IF out.t # "dict" THEN res
    ELSE LET s1 == IF Truthy(VGet(out, "slots")) /\ VGet(out, "slots").t = "dict"
                   THEN Update(res.slots, out.d["slots"].d) ELSE res.slots
             ctx == IF Truthy(VGet(out, "context")) /\ VGet(out, "context").t = "dict"
                    THEN out.d["context"].d ELSE EmptyDict
             free == {k \in DOMAIN ctx : k \notin DOMAIN res.context}
         IN [res EXCEPT !.slots = s1,
                        !.context = Update(Update(@, [k \in free |-> ctx[k]]),
                                           [k \in {j \o "_1" : j \in (DOMAIN ctx) \ free} |->
                                               ctx[CHOOSE j \in DOMAIN ctx : k = j \o "_1"]])]

\* A merge that stores the other top-level keys under their own names
merge_tool_output_flat(res, tool_name, out) ==
    IF out.t # "dict" THEN res
    ELSE LET s1 == IF Truthy(VGet(out, "slots")) /\ VGet(out, "slots").t = "dict"
                   THEN Update(res.slots, out.d["slots"].d) ELSE res.slots
             c1 == IF Truthy(VGet(out, "context")) /\ VGet(out, "context").t = "dict"
                   THEN Update(res.context, out.d["context"].d) ELSE res.context
             others == (DOMAIN out.d) \ {"slots", "context"}
         IN [res EXCEPT !.slots = s1, !.context = Update(c1, [k \in others |-> out.d[k]])]

\* ExecutionAgent._merge_tool_output
merge_tool_output(res, tool_name, out) ==
    IF out.t # "dict" THEN res
    ELSE LET s1 == IF Truthy(VGet(out, "slots")) /\ VGet(out, "slots").t = "dict"
                   THEN Update(res.slots, out.d["slots"].d) ELSE res.slots
             c1 == IF Truthy(VGet(out, "context")) /\ VGet(out, "context").t = "dict"
                   THEN Update(res.context, out.d["context"].d) ELSE res.context
             others == (DOMAIN out.d) \ {"slots", "context"}
             c2 == Update(c1, [k \in {tool_name \o "_" \o o : o \in others} |->
                                  out.d[CHOOSE o \in others : k = tool_name \o "_" \o o]])
         IN [res EXCEPT !.slots = s1, !.context = c2]

\* a or b
Or(a, b) == IF Truthy(a) THEN a ELSE b

\* f"{lat},{lng}"
LatLng(v) == Str(<<Repr(VGet(v, "lat")), Lit(<<",">>), Repr(VGet(v, "lng"))>>)

\* The dispatcher's working state: the (mutable) args, results and snapshot,
\* the routines called so far, whether an exception is propagating, and the
\* value returned
Entry(args, res, cs) ==
    [args |-> args, res |-> res, cs |-> cs, calls |-> <<>>, raised |-> FALSE, out |-> None]

Call(st, tool, args, ok) ==
    [st EXCEPT !.calls = Append(@, [tool |-> tool, args |-> args, ok |-> ok]),
               !.raised = ~ok]

GeocodeArgs(address, slot) == [address |-> address, slot |-> Text(<<slot>>)]

\* One field of the slot-reference pre-pass (agents.py 1168-1184)
PreField(st, field, env, cfg) ==
    LET val == Get(st.args, field)
    IN IF st.raised THEN st
       ELSE IF val.t = "dict" /\ VGet(val, "lat") # None /\ VGet(val, "lng") # None
       THEN LET v2 == Dict(Put(val.d, "__user_provided", Bool(TRUE)))
            IN [st EXCEPT !.args = Put(@, field, v2), !.res.slots = Put(@, field, v2)]
       ELSE IF val.t = "str" /\ StrKey(val) \notin DOMAIN st.cs
       THEN LET ok == env.aux /\ Truthy(val)
                s1 == Call(st, "Geocode", GeocodeArgs(val, field), ok)
                sv == Dict(Put(GeocodeOut(val, field, cfg).d["slots"].d[field].d,
                               "__user_provided", Bool(TRUE)))
            IN IF ok
               THEN [s1 EXCEPT !.args = Put(@, field, sv), !.res.slots = Put(@, field, sv)]
               ELSE s1
       ELSE IF val.t = "str"
       THEN [st EXCEPT !.args = Put(@, field, st.cs[StrKey(val)])]
       ELSE st

PrePass(st, name, env, cfg) ==
    IF name = "PlacesSearch" THEN PreField(st, "near", env, cfg)
    ELSE IF name \in {"Directions", "Geocode"}
    THEN PreField(PreField(st, "origin", env, cfg), "destination", env, cfg)
    ELSE st

\* near defaulting (agents.py 1186-1187)
NearDefault(st, name) ==
    IF ~st.raised /\ name = "PlacesSearch" /\ ~Truthy(Get(st.args, "near"))
       /\ Truthy(Get(st.cs, "origin"))
    THEN [st EXCEPT !.args = Put(@, "near", st.cs["origin"])]
    ELSE st

\* geolocate_user called inside another step, merged at once
WithResults(st, res) == [st EXCEPT !.res = res, !.cs = Update(st.cs, res.slots)]

ImplicitGeolocate(st, env, cfg) ==
    IF env.aux
    THEN WithResults(Call(st, "Geolocate", EmptyDict, TRUE),
                     merge_tool_output(st.res, "Geolocate", GeolocateOut(cfg)))
    ELSE Call(st, "Geolocate", EmptyDict, FALSE)

Return(st, tool, args, ok, out) ==
    IF ok THEN [Call(st, tool, args, TRUE) EXCEPT !.out = out]
    ELSE Call(st, tool, args, FALSE)

Fillers == {"weather", "directions", "to", "in", "near"}
LongFillers ==
    { <<"how", " ", "to", " ", "get">>, <<"how", " ", "do", " ", "i", " ", "get">> }

RECURSIVE RemoveFiller(_)
RemoveFiller(s) ==
    IF s = <<>> THEN <<>>
    ELSE LET l == Lower(s)
             M == {m \in LongFillers : Len(m) <= Len(s) /\ SubSeq(l, 1, Len(m)) = m}
         IN IF M # {} THEN RemoveFiller(SubSeq(s, Len(CHOOSE m \in M : TRUE) + 1, Len(s)))
            ELSE IF l[1] \in Fillers THEN RemoveFiller(Tail(s))
            ELSE <<Head(s)>> \o RemoveFiller(Tail(s))

\* The address a Geocode step falls back to (agents.py 1219-1223)
AddressGuess(q) ==
    LET g == StripU(RemoveFiller(q))
    IN IF g # <<>> /\ Lower(g) \notin {<<"me">>, <<"here">>} THEN Text(g) ELSE None

\* The slot a Geocode step writes (agents.py 1204-1217)
DefaultSlot(args, cs, q, next_name) ==
    LET slot == Get(args, "slot")
        dest_slot == Or(Get(cs, "destination"), Dict(EmptyDict))
    IN IF slot = Text(<<"origin">>) /\ next_name \in {"Weather", "Directions"}
       THEN "destination"
       ELSE IF ~Truthy(slot) /\ next_name \in {"Weather", "Directions"}
               /\ ~(Truthy(VGet(dest_slot, "name")) \/ Truthy(VGet(dest_slot, "lat"))
                    \/ Truthy(VGet(dest_slot, "lng")))
       THEN "destination"
       ELSE IF Truthy(slot) THEN StrKey(slot)
       ELSE IF next_name = "Weather" \/ Contains(Lower(q), <<"weather">>)
       THEN "destination" ELSE "origin"

\* The address a Geocode step passes on (agents.py 1218-1223)
AddressOf(args, q) ==
    LET a0 == Or(Get(args, "address"), Or(Get(args, "query"), Or(Get(args, "location"),
                 Or(Get(args, "destination"), Get(args, "place")))))
    IN IF Truthy(a0) THEN a0 ELSE AddressGuess(q)

GeocodeCall(st, address, slot, env, cfg) ==
    Return(st, "Geocode", GeocodeArgs(address, slot), env.main /\ Truthy(address),
           GeocodeOut(address, slot, cfg))

DoGeocode(st, q, next_name, env, cfg) ==
    GeocodeCall(st, AddressOf(st.args, q), DefaultSlot(st.args, st.cs, q, next_name),
                env, cfg)

ReverseGeocodeCall(st, lat, lng, env) ==
    IF st.raised THEN st
    ELSE IF lat # None /\ lng # None
    THEN Return(st, "ReverseGeocode", [lat |-> lat, lng |-> lng], env.main,
                ReverseGeocodeOut(lat, lng))
    ELSE st

ReverseGeocodeAt(st, args, env) ==
    ReverseGeocodeCall(st,
        Or(Get(args, "lat"), VGet(Or(Get(st.cs, "origin"), Dict(EmptyDict)), "lat")),
        Or(Get(args, "lng"), VGet(Or(Get(st.cs, "origin"), Dict(EmptyDict)), "lng")),
        env)

DoReverseGeocode(st, env, cfg) ==
    ReverseGeocodeAt(
        IF VGet(Or(Get(st.cs, "origin"), Dict(EmptyDict)), "__source") = Text(<<"geocode">>)
           /\ ~(Truthy(Get(st.args, "lat")) \/ Truthy(Get(st.args, "lng")))
        THEN ImplicitGeolocate(st, env, cfg) ELSE st,
        st.args, env)

KeyText(v) ==
    IF v.t = "num" THEN ToString(v.n) ELSE IF v.t = "str" THEN StrKey(v) ELSE "None"

\* A key that takes no suffix when it is already in use
WeatherKeyUnsuffixed(label, slot, lat, lng, context) ==
    "lastWeather_" \o (IF Truthy(label) THEN KeyText(label)
                       ELSE IF Truthy(slot) THEN KeyText(slot)
                       ELSE KeyText(lat) \o "_" \o KeyText(lng))

\* The context key a Weather result is stored under (agents.py 1280-1286)
WeatherKey(label, slot, lat, lng, context) ==
    LET base == "lastWeather_" \o
                   (IF Truthy(label) THEN KeyText(label)
                    ELSE IF Truthy(slot) THEN KeyText(slot)
                    ELSE KeyText(lat) \o "_" \o KeyText(lng))
        n == Cardinality(DOMAIN context) + 1
    IN IF base \notin DOMAIN context THEN base
       ELSE base \o "_" \o
            ToString(MinOf({i \in 1..n : (base \o "_" \o ToString(i)) \notin DOMAIN context}))

Pair(lat, lng) == [lat |-> lat, lng |-> lng]
Missing(p) == p.lat = None \/ p.lng = None
\* lat, lng = lat or v.get('lat'), lng or v.get('lng'), when one is still None
Fill(p, v) == IF Missing(p) THEN Pair(Or(p.lat, VGet(v, "lat")), Or(p.lng, VGet(v, "lng"))) ELSE p

FillIf(c, p, v) == IF c THEN Fill(p, v) ELSE p

\* The coordinates a Weather step finds in its arguments and the snapshot
\* (agents.py 1242-1258)
ArgCoords(args, cs) ==
    LET coords == Or(Get(args, "coordinates"), Get(args, "location"))
        p0 == Pair(Get(args, "lat"), Get(args, "lng"))
        sref == IF coords.t = "str" THEN Get(cs, StrKey(coords)) ELSE None
    IN IF coords.t = "dict"
       THEN Pair(Or(p0.lat, VGet(coords, "lat")), Or(p0.lng, VGet(coords, "lng")))
       ELSE IF Truthy(sref) /\ sref.t = "dict"
       THEN Pair(Or(p0.lat, VGet(sref, "lat")), Or(p0.lng, VGet(sref, "lng")))
       ELSE p0

WeatherCoords(args, cs) ==
    FillIf(Truthy(Get(args, "slot")),
           FillIf(Truthy(VGet(Get(cs, "destination"), "lat"))
                     /\ Truthy(VGet(Get(cs, "destination"), "lng")),
                  ArgCoords(args, cs), Get(cs, "destination")),
           Get(cs, StrKey(Get(args, "slot"))))

\* The call of weather_current and the renaming of its entry (agents.py 1276-1288)
WeatherCall(st, p0, ws, env) ==
    LET p == Fill(p0, Get(st.cs, "origin"))
        slot == Get(st.args, "slot")
        label == Or(Get(st.args, "label"), Get(st.args, "tag"))
        units == Or(Get(ws.context, "units"), Text(<<"imperial">>))
        key == WeatherKey(label, slot, p.lat, p.lng, st.res.context)
    IN IF st.raised THEN st
       ELSE IF Missing(p) THEN [st EXCEPT !.raised = TRUE]
       ELSE Return(st, "Weather", [lat |-> p.lat, lng |-> p.lng, units |-> units], env.main,
                   Dict([context |-> Dict(Put(EmptyDict, key,
                          WeatherOut(p.lat, p.lng, units).d["context"].d["lastWeather"]))]))

\* The origin as the last resort, geolocating first when needed (agents.py 1267-1274)
WeatherViaOrigin(st, p, ws, env, cfg) ==
    WeatherCall(IF /\ ~st.raised
                   /\ Missing(p)
                   /\ \/ ~(Truthy(VGet(Get(st.cs, "origin"), "lat"))
                           /\ Truthy(VGet(Get(st.cs, "origin"), "lng")))
                      \/ VGet(Get(st.cs, "origin"), "__source") = Text(<<"geocode">>)
                THEN ImplicitGeolocate(st, env, cfg) ELSE st,
                p, ws, env)

\* Geocoding of the address argument (agents.py 1260-1265)
WeatherViaAddress(st, p, ws, env, cfg) ==
    LET via == Missing(p) /\ Truthy(Get(st.args, "address"))
    IN WeatherViaOrigin(
           IF via THEN Call(st, "Geocode", [address |-> Get(st.args, "address")], env.aux)
           ELSE st,
           FillIf(via /\ env.aux, p,
                  GeocodeOut(Get(st.args, "address"), "origin", cfg).d["slots"].d["origin"]),
           ws, env, cfg)

DoWeather(st, ws, env, cfg) ==
    WeatherViaAddress(st, WeatherCoords(st.args, st.cs), ws, env, cfg)

SlotText(v) == IF Truthy(VGet(v, "lat")) THEN LatLng(v) ELSE VGet(v, "name")

\* One end of the trip as directions() receives it (agents.py 1291-1302)
TripEnd(args, cs, field) ==
    LET v0 == Get(args, field)
        v1 == IF Truthy(v0) THEN v0 ELSE SlotText(Get(cs, field))
    IN IF v1.t = "dict" THEN LatLng(v1) ELSE v1

GeolocatedOrigin(st) ==
    IF Truthy(VGet(Get(st.cs, "origin"), "lat")) THEN LatLng(Get(st.cs, "origin")) ELSE None

DirectionsCall(st, destination, o2, env) ==
    LET origin == IF Truthy(o2) THEN o2 ELSE GeolocatedOrigin(st)
    IN IF st.raised THEN st
       ELSE Return(st, "Directions", [destination |-> destination, origin |-> origin],
                   env.main, DirectionsOut(destination, origin))

DirectionsFrom(st, destination, origin, env, cfg) ==
    DirectionsCall(IF ~Truthy(origin) THEN ImplicitGeolocate(st, env, cfg) ELSE st,
                   destination, origin, env)

DoDirections(st, env, cfg) ==
    DirectionsFrom(st, Or(TripEnd(st.args, st.cs, "destination"), Str(<<>>)),
                   TripEnd(st.args, st.cs, "origin"), env, cfg)

\* The message a Conversation step passes on (agents.py 1199-1200)
Message(args, q) == IF "message" \in DOMAIN args THEN args["message"] ELSE Text(q)

\* The actions the dispatcher has a routine for (agents.py 1190-1312)
KnownTools ==
    {"Geolocate", "PlacesSearch", "PlaceDetails", "Conversation", "Geocode",
     "ReverseGeocode", "Weather", "Directions"}

\* A dispatcher that raises on an action it has no routine for
DispatchRaisesOnUnknown(name, st, ws, next_name, env, cfg) ==
    IF st.raised THEN st
    ELSE CASE name = "Geolocate" ->
                Return(st, "Geolocate", EmptyDict, env.main, GeolocateOut(cfg))
           [] name = "PlacesSearch" ->
                Return(st, "PlacesSearch", st.args, env.main, PlacesSearchOut(st.args, cfg))
           [] name = "PlaceDetails" ->
                Return(st, "PlaceDetails", st.args, env.main, PlaceDetailsOut(st.args))
           [] name = "Conversation" ->
                Return(st, "Conversation", [message |-> Message(st.args, ws.query)],
                       env.main, ConversationOut(Message(st.args, ws.query)))
           [] name = "Geocode" -> DoGeocode(st, ws.query, next_name, env, cfg)
           [] name = "ReverseGeocode" -> DoReverseGeocode(st, env, cfg)
           [] name = "Weather" -> DoWeather(st, ws, env, cfg)
           [] name = "Directions" -> DoDirections(st, env, cfg)
           [] OTHER -> [st EXCEPT !.raised = TRUE]

\* The routine of the step's action (agents.py 1190-1315)
Dispatch(name, st, ws, next_name, env, cfg) ==
    IF st.raised THEN st
    ELSE CASE name = "Geolocate" ->
                Return(st, "Geolocate", EmptyDict, env.main, GeolocateOut(cfg))
           [] name = "PlacesSearch" ->
                Return(st, "PlacesSearch", st.args, env.main, PlacesSearchOut(st.args, cfg))
           [] name = "PlaceDetails" ->
                Return(st, "PlaceDetails", st.args, env.main, PlaceDetailsOut(st.args))
           [] name = "Conversation" ->
                Return(st, "Conversation", [message |-> Message(st.args, ws.query)],
                       env.main, ConversationOut(Message(st.args, ws.query)))
           [] name = "Geocode" -> DoGeocode(st, ws.query, next_name, env, cfg)
           [] name = "ReverseGeocode" -> DoReverseGeocode(st, env, cfg)
           [] name = "Weather" -> DoWeather(st, ws, env, cfg)
           [] name = "Directions" -> DoDirections(st, env, cfg)
           [] OTHER -> st

\* _execute_tool_step: the pre-pass, then the routine of the step's action
execute_tool_step(tool, ws, cs, res, next_name, env, cfg) ==
    Dispatch(tool.name,
             NearDefault(PrePass(Entry(tool.args, res, cs), tool.name, env, cfg), tool.name),
             ws, next_name, env, cfg)

-----------------------------------------------------------------------------
(* The slot merge policy of the step loop, and what process() returns *)

\* A policy that protects the geolocated value before it looks at anything else
should_overwrite_slot_provenance_first(slot_name, new_slot, tool_name, res, cs) ==
    LET existing == Or(Get(res.slots, slot_name), Get(cs, slot_name))
    IN IF VGet(existing, "__source") = Text(<<"geolocate">>)
          /\ VGet(new_slot, "__source") = Text(<<"geocode">>) THEN FALSE
       ELSE TRUE

\* _should_overwrite_slot (agents.py 620-645)
should_overwrite_slot(slot_name, new_slot, tool_name, res, cs) ==
    LET existing == Or(Get(res.slots, slot_name), Get(cs, slot_name))
    IN IF tool_name = "Geocode" /\ slot_name = "origin" THEN TRUE
       ELSE IF new_slot.t = "dict" /\ Truthy(VGet(new_slot, "__user_provided")) THEN TRUE
       ELSE IF ~Truthy(existing) THEN TRUE
       ELSE IF VGet(existing, "__source") = Text(<<"geolocate">>)
               /\ VGet(new_slot, "__source") = Text(<<"geocode">>) THEN FALSE
       ELSE IF ~(existing.t = "dict" /\ HasCoords(existing))
               /\ (new_slot.t = "dict" /\ HasCoords(new_slot)) THEN TRUE
       ELSE TRUE

\* The guarded slot writes of the loop (agents.py 1099-1105)
GuardedSlots(res, out, tool_name, cs) ==
    LET new == VGet(out, "slots")
        W == IF Truthy(new) /\ new.t = "dict"
             THEN {k \in DOMAIN new.d : should_overwrite_slot(k, new.d[k], tool_name, res, cs)}
             ELSE {}
    IN [res EXCEPT !.slots = Update(@, [k \in W |-> new.d[k]])]

\* The merge of one step's output in the loop (agents.py 1097-1107)
MergeStep(res, tool_name, out, cs) ==
    IF out.t = "dict"
    THEN merge_tool_output(GuardedSlots(res, out, tool_name, cs), tool_name, out)
    ELSE res

WeatherPrefix == "lastWeather_"

\* k.startswith('lastWeather_')
IsWeatherKey(k) ==
    Len(k) >= Len(WeatherPrefix) /\ SubSeq(k, 1, Len(WeatherPrefix)) = WeatherPrefix

\* k.split('lastWeather_', 1)[1]
WeatherLabel(k) == SubSeq(k, Len(WeatherPrefix) + 1, Len(k))

\* _summarize_weather
summarize_weather(res) ==
    LET W == {k \in DOMAIN res.context : IsWeatherKey(k) /\ res.context[k].t = "dict"}
        entry(v) == Dict([temp |-> VGet(v, "temp"), summary |-> VGet(v, "summary"),
                          lat |-> VGet(v, "lat"), lng |-> VGet(v, "lng")])
    IN IF W = {} THEN res
       ELSE [res EXCEPT !.context =
                Put(@, "final_weather_summary",
                    Dict([l \in {WeatherLabel(k) : k \in W} |->
                             entry(res.context[WeatherPrefix \o l])]))]

\* The slot write-back of process() (agents.py 359-377)
WriteBack(res) ==
    LET dir_ctx == Or(Get(res.context, "directions"),
                      Or(Get(res.context, "transit_directions"), Dict(EmptyDict)))
        have(k) == Truthy(Get(res.slots, k))
                   /\ (Truthy(VGet(Get(res.slots, k), "name"))
                       \/ Truthy(VGet(Get(res.slots, k), "lat")))
        K == {k \in {"origin", "destination"} : VGet(dir_ctx, k).t = "dict" /\ ~have(k)}
    IN [res EXCEPT !.slots =
           Update(@, [k \in K |-> Dict([name |-> VGet(VGet(dir_ctx, k), "name"),
                                        lat |-> VGet(VGet(dir_ctx, k), "lat"),
                                        lng |-> VGet(VGet(dir_ctx, k), "lng")])])]

EmptyResults == [context |-> EmptyDict, slots |-> EmptyDict, errors |-> <<>>,
                 tools_executed |-> <<>>]

-----------------------------------------------------------------------------
(* The inputs of a run: utterances, plans, Blackboards, tool behaviour *)

MaxFailures == 1
MaxPlaces == 2

Utterances ==
    { <<"w", "here", " ", "am", " ", "I">>,
      <<"weather", " ", "near", " ", "me">>,
      <<"weather", " ", "in", " ", "Queens">>,
      <<"Find", " ", "nearest", " ", "Burger", " ", "King">>,
      <<"directions", " ", "to", " ", "Main", " ", "St">>,
      <<"from", " ", "Main", " ", "St", " ", "to", " ", "Queens">>,
      <<"directions", " ", "from", " ", "Queens">>,
      <<"towards", " ", "Queens", " ", "from", " ", "Main", " ", "St">>,
      <<"hello">> }

NearestBurgerKing == Text(<<"nearest", " ", "Burger", " ", "King">>)
Queens == Text(<<"Queens">>)
Somewhere == Dict([lat |-> Num(42), lng |-> Num(-72)])

SlotPath(prefix, slot, field) ==
    Str(<<Dollar(prefix \o <<Key(slot), Key(field)>>)>>)

\* Tools plans the selection step can hand to the executor
Plans ==
    { <<Step("Directions", [query |-> NearestBurgerKing])>>,
      <<Step("Directions", EmptyDict)>>,
      <<Step("Weather", EmptyDict)>>,
      <<Step("Geolocate", EmptyDict), Step("Weather", EmptyDict)>>,
      <<Step("Weather", [coordinates |-> Somewhere])>>,
      <<Step("Weather", EmptyDict), Step("ReverseGeocode", EmptyDict)>>,
      <<Step("Geolocate", EmptyDict), Step("ReverseGeocode", EmptyDict)>>,
      <<Step("PlacesSearch", [query |-> NearestBurgerKing]),
        Step("PlaceDetails", [placeId |-> FirstPlaceId])>>,
      <<Step("Geocode", [address |-> Queens, slot |-> Text(<<"destination">>)]),
        Step("Weather", [lat |-> SlotPath(<<>>, "destination", "lat"),
                         lng |-> SlotPath(<<>>, "destination", "lng")])>>,
      <<Step("Geocode", [address |-> Queens, slot |-> Text(<<"destination">>)]),
        Step("Weather", [lat |-> SlotPath(<<Key("slots")>>, "destination", "lat"),
                         lng |-> SlotPath(<<Key("slots")>>, "destination", "lng")])>>,
      <<Step("Geocode", [address |-> Queens, slot |-> Text(<<"origin">>)]),
        Step("Directions", [destination |-> Text(<<"Main", " ", "St">>)])>>,
      <<Step("PlacesSearch", [query |-> Text(<<"pizza">>)]),
        Step("Directions", [query |-> NearestBurgerKing])>>,
      <<Step("PlacesSearch", [query |-> Text(<<"pizza">>), near |-> Somewhere]),
        Step("PlacesSearch", [query |-> NearestBurgerKing])>>,
      <<Step("Geocode", [address |-> Queens, slot |-> Text(<<"destination">>)]),
        Step("Weather", EmptyDict)>>,
      <<Step("Geocode", [address |-> Queens]), Step("Weather", EmptyDict)>>,
      <<Step("Geocode", [address |-> Queens]),
        Step("Directions", [destination |-> Text(<<"Main", " ", "St">>)])>>,
      <<Step("Geocode", [address |-> Queens])>>,
      <<Step("Weather", [slot |-> Text(<<"origin">>)]),
        Step("Weather", [label |-> Text(<<"origin">>)]),
        Step("Weather", [slot |-> Text(<<"origin">>)])>>,
      <<Step("Weather", [lat |-> Num(42), lng |-> Num(-72)])>>,
      <<Step("Weather", [location |-> Text(<<"origin">>)])>>,
      <<Step("Weather", [lat |-> Num(42)])>>,
      <<Step("Teleport", [to |-> Queens]), Step("Geolocate", EmptyDict)>>,
      <<Step("Weather", [address |-> Queens])>>,
      <<Step("Conversation",
             [message |-> Str(<<Lit(<<"near", " ">>),
                                Dollar(<<Key("context"), At("places", BadIndex)>>)>>)]),
        Step("Teleport",
             [target |-> Str(<<Dollar(<<Key("context"), Key("places"),
                                        At("results", Num(MaxPlaces + 1))>>)>>)])>> }

\* Plan steps of the planner (the fallback path runs these)
PlannerPlans ==
    { <<Step("Geolocate", EmptyDict), Step("Weather", EmptyDict)>>,
      <<Step("PlacesSearch", [query |-> NearestBurgerKing]),
        Step("Directions", [destination |-> Queens])>> }

\* Slots() of contracts.py
NoPlace == Dict([name |-> None, lat |-> None, lng |-> None])
SlotsOf(o, d) ==
    [origin |-> o, destination |-> d, departureTime |-> None, modePrefs |-> List(<<>>)]

Located ==
    Dict(Put([name |-> Text(<<"Current", " ", "Location">>), lat |-> Num(40), lng |-> Num(-74)],
             "__source", Text(<<"geolocate">>)))
Remembered == Dict([name |-> Queens, lat |-> Num(43), lng |-> Num(-71)])

StalePlaces ==
    [places |-> Dict([results |-> List(<<Dict([placeId |-> Text(<<"PLACE_OLD">>)])>>)])]

Blackboards ==
    { [slots |-> SlotsOf(NoPlace, NoPlace), context |-> EmptyDict],
      [slots |-> SlotsOf(Located, NoPlace), context |-> EmptyDict],
      [slots |-> SlotsOf(NoPlace, Located), context |-> EmptyDict],
      [slots |-> SlotsOf(Located, Remembered), context |-> StalePlaces] }

\* What the decision oracle can answer (None: no usable answer)
OracleAnswers ==
    { None,
      Dict([update_destination |-> Bool(FALSE)]),
      Dict([update_destination |-> Bool(TRUE), address |-> Queens]) }

\* Tool behaviour of a run
Cfgs ==
    { [tag |-> FALSE, places |-> MaxPlaces],
      [tag |-> TRUE,  places |-> MaxPlaces],
      [tag |-> FALSE, places |-> 0] }

AllOk == [main |-> TRUE, aux |-> TRUE]

\* Outcomes of the routines one step calls: the step's own routine and the
\* routines it calls on the way (pre-pass geocoding, implicit geolocation)
Envs(f) ==
    {AllOk} \cup (IF f < MaxFailures
                  THEN {[main |-> FALSE, aux |-> TRUE], [main |-> TRUE, aux |-> FALSE]}
                  ELSE {})

NoSnap == [raw |-> <<>>, autopatched |-> <<>>, near |-> <<>>, guarded |-> <<>>,
           whereami |-> <<>>, only_places |-> FALSE, given |-> <<>>]

-----------------------------------------------------------------------------
(* The run *)

Init ==
    /\ query \in Utterances
    /\ steps \in PlannerPlans \cup {<<>>}
    /\ \/ mode = "llm" /\ tools_plan \in Plans \cup {<<>>}
       \/ mode = "fallback" /\ tools_plan = <<>>
    /\ \E b \in Blackboards :
          world_state = [slots |-> b.slots, context |-> b.context, query |-> query]
    /\ current_slots = world_state.slots
    /\ toolcfg \in Cfgs
    /\ results = EmptyResults
    /\ oracle = None
    /\ idx = 1
    /\ pc = "start"
    /\ fails = 0
    /\ invoked = <<>>
    /\ log = <<>>
    /\ snap = NoSnap
    /\ substIn = None
    /\ substOut = None

\* A process() that runs whatever it is given
EarlyReturnNever(q, st) == ""

\* The checks process() makes before it runs anything (agents.py 332-343):
\* the status it returns at once, "" when it goes on to run the plan
EarlyReturn(q, st) ==
    IF q = <<>> THEN "no_query" ELSE IF st = <<>> THEN "no_plan" ELSE ""

\* The delta of an early return (agents.py 335, 343)
EarlyDelta(status) ==
    [deltaState |->
        [context |-> Dict([execution_result |-> Dict([status |-> Text(<<status>>)])])]]

\* process() returns at once: no utterance, or no plan steps (agents.py 334-343)
ReturnEarly ==
    /\ pc = "start" /\ EarlyReturn(query, steps) # ""
    /\ pc' = EarlyReturn(query, steps)
    /\ UNCHANGED <<query, steps, tools_plan, oracle, world_state, current_slots, results,
                   idx, mode, invoked, log, snap, substIn, substOut, toolcfg, fails>>

\* The autopatch pass over a non-empty tools plan (agents.py 648-1049)
Patch ==
    /\ pc = "start" /\ mode = "llm" /\ tools_plan # <<>>
    /\ EarlyReturn(query, steps) = ""
    /\ \E p1 \in {autopatch_places(tools_plan, world_state.query)} :
       \E p2 \in {ensure_places_has_near(p1, world_state.slots)} :
       \E answer \in (IF HasStep(p2, "Directions") /\ ~HasGeocodeDestination(p2)
                      THEN OracleAnswers ELSE {None}) :
       \E p3 \in {StaleDestinationGuard(p2, query, answer, current_slots)} :
       \E p4 \in {WhereAmIPatch(p3, query)} :
       \E p5 \in {WeatherPatch(p4, query)} :
       \E only_places \in {OnlyPlaces(p5, world_state.query)} :
          /\ oracle' = answer
          /\ tools_plan' = p5
          /\ snap' = [raw |-> tools_plan, autopatched |-> p1, near |-> p2,
                      guarded |-> p3, whereami |-> p4, only_places |-> only_places,
                      given |-> GivenSteps(tools_plan, world_state.query,
                                           world_state.slots)]
          /\ pc' = IF only_places THEN "places_only" ELSE "loop"
    /\ UNCHANGED <<query, steps, world_state, current_slots, results, idx, mode,
                   invoked, log, substIn, substOut, toolcfg, fails>>

\* No tools plan, or no model to ask: the planner's steps are run instead
\* (agents.py 1120, 353-355)
StartFallback ==
    /\ pc = "start"
    /\ EarlyReturn(query, steps) = ""
    /\ mode = "fallback" \/ tools_plan = <<>>
    /\ mode' = "fallback"
    /\ pc' = "loop"
    /\ UNCHANGED <<query, steps, tools_plan, oracle, world_state, current_slots, results,
                   idx, invoked, log, snap, substIn, substOut, toolcfg, fails>>

\* The summary the shortcut writes as final_response (agents.py 1068-1077)
FinalResponse(places) ==
    IF Truthy(VGet(places, "results"))
    THEN Text(<<"Here are the nearest results">>) ELSE Text(<<"No results found.">>)

\* near defaulting of the shortcut (agents.py 1058-1059)
WithNear(args, cs) ==
    IF ~Truthy(Get(args, "near")) /\ Truthy(Get(cs, "origin"))
    THEN Put(args, "near", cs["origin"]) ELSE args

\* What the shortcut leaves in the results (agents.py 1062-1077)
ShortcutResults(res, tool_name, out, places) ==
    [merge_tool_output(res, tool_name, out) EXCEPT !.context =
        Put(Put(@, "places", places), "final_response", FinalResponse(places))]

\* The places-only shortcut (agents.py 1051-1078); an exception of the search
\* leaves _execute_plan_with_llm_reasoning and process() runs the fallback
PlacesOnly ==
    /\ pc = "places_only"
    /\ \E args \in {WithNear(SubstArgs(tools_plan[1].args, world_state, current_slots,
                                       results), current_slots)} :
       \E out \in {PlacesSearchOut(args, toolcfg)} :
       \E ok \in (IF fails < MaxFailures THEN BOOLEAN ELSE {TRUE}) :
          /\ invoked' = Append(invoked, [tool |-> "PlacesSearch", args |-> args, ok |-> ok])
          /\ IF ok
             THEN /\ results' = WriteBack(ShortcutResults(results, tools_plan[1].name, out,
                                    VGet(Or(VGet(out, "context"), Dict(EmptyDict)), "places")))
                  /\ pc' = "done"
                  /\ UNCHANGED <<mode, current_slots, fails>>
             ELSE /\ results' = EmptyResults
                  /\ current_slots' = world_state.slots
                  /\ mode' = "fallback"
                  /\ pc' = "loop"
                  /\ fails' = fails + 1
    /\ UNCHANGED <<query, steps, tools_plan, oracle, world_state, idx, log, snap,
                   substIn, substOut, toolcfg>>

Failure(name) == [tool |-> name]

\* The outcome of one handled step: an error recorded, or the output merged
Handled(st, name, merged) ==
    IF st.raised THEN [st.res EXCEPT !.errors = Append(@, Failure(name))] ELSE merged

Executed(st, name) == [st.res EXCEPT !.tools_executed = Append(@, name)]

\* A loop that stays on a step that raised
AdvanceRetries(i, raised) == IF raised THEN i ELSE i + 1

\* The for loop moves on to the next step, whether the step raised or not
\* (agents.py 1082, 1111-1113)
Advance(i, raised) == i + 1

\* A snapshot that never learns what the steps have written
SnapshotKept(cs, res, raised) == cs

\* current_slots.update(results.get('slots', {})), skipped when the step raised
\* (agents.py 1109, 1143)
Snapshot(cs, res, raised) == IF raised THEN cs ELSE Update(cs, res.slots)

\* One iteration of the step loop (agents.py 1082-1113)
LoopStep ==
    /\ pc = "loop" /\ mode = "llm" /\ idx <= Len(tools_plan)
    /\ \E env \in Envs(fails) :
       \E tool \in {tools_plan[idx]} :
       \E args \in {SubstArgs(tool.args, world_state, current_slots, results)} :
       \E st \in {execute_tool_step(Step(tool.name, args), world_state, current_slots, results,
                     IF idx < Len(tools_plan) THEN tools_plan[idx + 1].name ELSE "",
                     env, toolcfg)} :
       \E res \in {Handled(st, tool.name,
                           MergeStep(Executed(st, tool.name), tool.name, st.out, st.cs))} :
          /\ results' = res
          /\ current_slots' = Snapshot(st.cs, res, st.raised)
          /\ invoked' = invoked \o st.calls
          /\ log' = Append(log, [mode |-> mode, name |-> tool.name, args |-> args,
                                 raised |-> st.raised, out |-> st.out])
          /\ fails' = IF st.raised /\ env # AllOk THEN fails + 1 ELSE fails
          /\ idx' = Advance(idx, st.raised)
    /\ UNCHANGED <<query, steps, tools_plan, oracle, world_state, pc, mode, snap,
                   substIn, substOut, toolcfg>>

\* One iteration of _execute_plan_steps_fallback (agents.py 1128-1146)
FallbackStep ==
    /\ pc = "loop" /\ mode = "fallback" /\ idx <= Len(steps)
    /\ \E env \in Envs(fails) :
       \E step \in {steps[idx]} :
       \E st \in {execute_tool_step(step, world_state, current_slots, results, "",
                                    env, toolcfg)} :
       \E res \in {Handled(st, step.name,
                           merge_tool_output(Executed(st, step.name), step.name, st.out))} :
          /\ results' = res
          /\ current_slots' = Snapshot(st.cs, res, st.raised)
          /\ steps' = IF step.args # EmptyDict
                      THEN [steps EXCEPT ![idx].args = st.args] ELSE steps
          /\ invoked' = invoked \o st.calls
          /\ log' = Append(log, [mode |-> mode, name |-> step.name, args |-> step.args,
                                 raised |-> st.raised, out |-> st.out])
          /\ fails' = IF st.raised /\ env # AllOk THEN fails + 1 ELSE fails
    /\ idx' = idx + 1
    /\ UNCHANGED <<query, tools_plan, oracle, world_state, pc, mode, snap,
                   substIn, substOut, toolcfg>>

\* The loop is over: the weather summary, then the slot write-back of process()
ReturnResults ==
    /\ pc = "loop"
    /\ idx > Len(IF mode = "llm" THEN tools_plan ELSE steps)
    /\ results' = WriteBack(summarize_weather(results))
    /\ pc' = "done"
    /\ UNCHANGED <<query, steps, tools_plan, oracle, world_state, current_slots, idx, mode,
                   invoked, log, snap, substIn, substOut, toolcfg, fails>>

Next ==
    ReturnEarly \/ Patch \/ StartFallback \/ PlacesOnly \/ LoopStep \/ FallbackStep
    \/ ReturnResults

Spec == Init /\ [][Next]_vars

-----------------------------------------------------------------------------
(* substitute_placeholders on its own: one argument value against stores *)

OriginLat == <<Key("slots"), Key("origin"), Key("lat")>>
OriginName == <<Key("slots"), Key("origin"), Key("name")>>

SubstValues ==
    { Num(5),
      Queens,
      Str(<<Dollar(OriginLat)>>),
      Str(<<Dollar(<<Key("slots"), Key("origin")>>)>>),
      Str(<<Dollar(<<Key("origin"), Key("lat")>>)>>),
      Str(<<Dollar(<<Key("slots"), Key("departureTime")>>)>>),
      Str(<<Lit(<<" ">>), Dollar(OriginLat), Lit(<<" ">>)>>),
      Str(<<Lit(<<"at", " ">>), Dollar(OriginLat)>>),
      Str(<<Lit(<<"at", " ">>), Dollar(OriginName), Lit(<<" ">>), Dollar(OriginLat)>>),
      Str(<<Brace(OriginLat)>>),
      Str(<<Lit(<<"at", " ">>), Brace(OriginName)>>),
      Str(<<Brace(OriginName), Lit(<<" ">>), Dollar(OriginLat)>>),
      FirstPlaceId,
      Str(<<Dollar(<<Key("context"), At("places", BadIndex)>>)>>),
      Str(<<Lit(<<"near", " ">>),
            Dollar(<<Key("context"), Key("places"), At("results", Num(MaxPlaces + 1))>>)>>),
      Str(<<Lit(<<"near", " ">>), Brace(<<Key("slots"), Key("nowhere")>>)>>) }

\* What a run may have merged so far
MergedSoFar ==
    { EmptyResults,
      [EmptyResults EXCEPT !.slots = [origin |-> GeolocateOut([tag |-> FALSE, places |-> 0]).d.slots.d.origin]],
      [EmptyResults EXCEPT !.context =
          PlacesSearchOut([query |-> NearestBurgerKing, near |-> LatLng(Located)],
                          [tag |-> FALSE, places |-> MaxPlaces]).d.context.d] }

InitSubst ==
    /\ query = <<"hello">>
    /\ steps = <<>>
    /\ tools_plan = <<>>
    /\ mode = "llm"
    /\ \E b \in Blackboards :
          world_state = [slots |-> b.slots, context |-> b.context, query |-> query]
    /\ current_slots \in {world_state.slots, Update(world_state.slots, [origin |-> Remembered])}
    /\ toolcfg \in {c \in Cfgs : ~c.tag /\ c.places = MaxPlaces}
    /\ results \in MergedSoFar
    /\ oracle = None
    /\ idx = 1
    /\ pc = "subst"
    /\ fails = 0
    /\ invoked = <<>>
    /\ log = <<>>
    /\ snap = NoSnap
    /\ substIn \in SubstValues
    /\ substOut = None

Substitute ==
    /\ pc = "subst"
    /\ substOut' = substitute_placeholders(substIn, world_state, current_slots, results)
    /\ pc' = "substituted"
    /\ UNCHANGED <<query, steps, tools_plan, oracle, world_state, current_slots, results, idx,
                   mode, invoked, log, snap, substIn, toolcfg, fails>>

NextSubst == Substitute

SpecSubst == InitSubst /\ [][NextSubst]_vars

-----------------------------------------------------------------------------
(* The slot merge policy on its own: one decision per behaviour *)

SlotNames == {"origin", "destination"}

\* The actions whose output carries slots
Producers == {"Geocode", "Geolocate", "Directions"}

Place(lat, lng) == [name |-> Queens, lat |-> lat, lng |-> lng]

\* Values a step may return for a slot
NewSlots ==
    { Dict(Put(Place(Num(41), Num(-73)), "__source", Text(<<"geocode">>))),
      Dict(Put(Place(None, None), "__source", Text(<<"geocode">>))),
      Dict(Put(Place(Num(40), Num(-74)), "__source", Text(<<"geolocate">>))),
      Dict(Place(Num(41), Num(-73))),
      Dict(Put(Put(Place(Num(41), Num(-73)), "__source", Text(<<"geocode">>)),
               "__user_provided", Bool(TRUE))),
      Queens }

\* Values the results or the snapshot may hold for a slot (None: no value)
ExistingSlots ==
    { None,
      Dict(Put(Place(Num(40), Num(-74)), "__source", Text(<<"geolocate">>))),
      Dict(Put(Place(None, None), "__source", Text(<<"geolocate">>))),
      Dict(Put(Place(Num(43), Num(-71)), "__source", Text(<<"geocode">>))),
      Dict(Place(None, None)) }

Holding(slot_name, v) == IF v = None THEN EmptyDict ELSE Put(EmptyDict, slot_name, v)

InitOverwrite ==
    /\ query = <<"hello">>
    /\ steps = <<>>
    /\ tools_plan = <<>>
    /\ mode = "llm"
    /\ substIn \in [slot_name : SlotNames, new_slot : NewSlots, tool_name : Producers]
    /\ \E b \in Blackboards :
          world_state = [slots |-> b.slots, context |-> b.context, query |-> query]
    /\ \E v \in ExistingSlots : current_slots = Holding(substIn.slot_name, v)
    /\ \E v \in ExistingSlots :
          results = [EmptyResults EXCEPT !.slots = Holding(substIn.slot_name, v)]
    /\ toolcfg \in {c \in Cfgs : c.tag /\ c.places = MaxPlaces}
    /\ oracle = None
    /\ idx = 1
    /\ pc = "decide"
    /\ fails = 0
    /\ invoked = <<>>
    /\ log = <<>>
    /\ snap = NoSnap
    /\ substOut = None

Decide ==
    /\ pc = "decide"
    /\ substOut' = Bool(should_overwrite_slot(substIn.slot_name, substIn.new_slot,
                                              substIn.tool_name, results, current_slots))
    /\ pc' = "decided"
    /\ UNCHANGED <<query, steps, tools_plan, oracle, world_state, current_slots, results, idx,
                   mode, invoked, log, snap, substIn, toolcfg, fails>>

NextOverwrite == Decide

SpecOverwrite == InitOverwrite /\ [][NextOverwrite]_vars

-----------------------------------------------------------------------------
(* A run followed by a second autopatch pass over the same raw plan, the same
   Blackboard, the same utterance and the same oracle answer *)

\* _execute_plan_with_llm_reasoning entered again (agents.py 660-1031): the
\* snapshot is taken afresh from the Blackboard, and substOut keeps the plan
\* the second pass produces
Repatch ==
    /\ pc = "done" /\ mode = "llm" /\ snap.raw # <<>>
    /\ \E p1 \in {autopatch_places(snap.raw, world_state.query)} :
       \E p2 \in {ensure_places_has_near(p1, world_state.slots)} :
       \E p3 \in {StaleDestinationGuard(p2, query, oracle, world_state.slots)} :
       \E p4 \in {WhereAmIPatch(p3, query)} :
          substOut' = WeatherPatch(p4, query)
    /\ current_slots' = world_state.slots
    /\ pc' = "repatched"
    /\ UNCHANGED <<query, steps, tools_plan, oracle, world_state, results, idx, mode,
                   invoked, log, snap, substIn, toolcfg, fails>>

NextTwice ==
    ReturnEarly \/ Patch \/ StartFallback \/ PlacesOnly \/ LoopStep \/ FallbackStep
    \/ ReturnResults \/ Repatch

SpecTwice == Init /\ [][NextTwice]_vars

-----------------------------------------------------------------------------
(* The merge helper on its own: one output merged, then merged again *)

AnyCfg == [tag |-> FALSE, places |-> MaxPlaces]

\* Outputs of the tools, with the action that returned them
ToolOutputs ==
    { [tool_name |-> "Geolocate", out |-> GeolocateOut(AnyCfg)],
      [tool_name |-> "Geocode", out |-> GeocodeOut(Queens, "origin", AnyCfg)],
      [tool_name |-> "Geocode", out |-> GeocodeOut(Queens, "destination", AnyCfg)],
      [tool_name |-> "ReverseGeocode", out |-> ReverseGeocodeOut(Num(40), Num(-74))],
      [tool_name |-> "Weather", out |-> WeatherOut(Num(40), Num(-74), Text(<<"imperial">>))],
      [tool_name |-> "PlacesSearch",
       out |-> PlacesSearchOut([query |-> NearestBurgerKing, near |-> LatLng(Located)], AnyCfg)],
      [tool_name |-> "PlacesSearch", out |-> PlacesSearchOut([query |-> Queens], AnyCfg)],
      [tool_name |-> "PlaceDetails", out |-> PlaceDetailsOut([placeId |-> Text(<<"PLACE_1">>)])],
      [tool_name |-> "Directions", out |-> DirectionsOut(Queens, LatLng(Located))],
      [tool_name |-> "Directions", out |-> DirectionsOut(Str(<<>>), None)],
      [tool_name |-> "Conversation", out |-> ConversationOut(Text(<<"hello">>))],
      [tool_name |-> "Teleport", out |-> None] }

\* What the results may hold when the output arrives
MergedBefore ==
    MergedSoFar
    \cup {merge_tool_output(EmptyResults, o.tool_name, o.out) :
             o \in {t \in ToolOutputs : t.tool_name \in {"Geocode", "Weather", "Directions"}}}

InitMerge ==
    /\ query = <<"hello">>
    /\ steps = <<>>
    /\ tools_plan = <<>>
    /\ mode = "llm"
    /\ substIn \in ToolOutputs
    /\ \E b \in Blackboards :
          world_state = [slots |-> b.slots, context |-> b.context, query |-> query]
    /\ current_slots = world_state.slots
    /\ results \in MergedBefore
    /\ toolcfg = AnyCfg
    /\ oracle = None
    /\ idx = 1
    /\ pc = "merge"
    /\ fails = 0
    /\ invoked = <<>>
    /\ log = <<>>
    /\ snap = NoSnap
    /\ substOut = None

\* _merge_tool_output(results, tool_name, out), substOut keeping what the
\* results were before the call
Merge ==
    /\ pc \in {"merge", "merged"}
    /\ results' = merge_tool_output(results, substIn.tool_name, substIn.out)
    /\ substOut' = results
    /\ pc' = IF pc = "merge" THEN "merged" ELSE "remerged"
    /\ UNCHANGED <<query, steps, tools_plan, oracle, world_state, current_slots, idx,
                   mode, invoked, log, snap, substIn, toolcfg, fails>>

NextMerge == Merge

SpecMerge == InitMerge /\ [][NextMerge]_vars

-----------------------------------------------------------------------------
(* Properties of a run *)

\* The main step loop is about to handle step idx of the patched plan
Handling == pc = "loop" /\ mode = "llm" /\ idx <= Len(tools_plan)

\* The record of the step handled last
Last(l) == l[Len(l)]

\* The autopatch pass has run over the plan the run started with
Patched == snap.raw # <<>>

Geolocated(v) == VGet(v, "__source") = Text(<<"geolocate">>) /\ HasCoords(v)
Geocoded(v) == VGet(v, "__source") = Text(<<"geocode">>)

\* C1: when a slot holds a value tagged geolocate with coordinates (in the
\* results so far or in the slot snapshot) and a step returns a value tagged
\* geocode for that slot, other than a Geocode step writing origin and without
\* a __user_provided mark, the results do not take the new value.
C1_GeolocatedSlotKept ==
    [][Handling /\ log' # log =>
         \A k \in {"origin", "destination"} :
            LET new == VGet(VGet(Last(log').out, "slots"), k)
                held == Or(Get(results.slots, k), Get(current_slots, k))
            IN (/\ Geolocated(held)
                /\ Geocoded(new)
                /\ ~Truthy(VGet(new, "__user_provided"))
                /\ ~(tools_plan[idx].name = "Geocode" /\ k = "origin")
                /\ ~Last(log').raised)
               => Get(results'.slots, k) # new]_vars

\* C2: the main loop handles every step of the patched plan exactly once and
\* in plan order: the steps handled so far are the first idx - 1 steps of the
\* plan, each has left either its name in tools_executed or a message in
\* errors, and at the end every step of the plan has been handled.
C2_EveryStepOnceInOrder ==
    (mode = "llm" /\ pc \in {"loop", "done"} /\ ~snap.only_places) =>
        /\ Len(log) = idx - 1
        /\ Len(log) <= Len(tools_plan)
        /\ \A i \in 1..Len(log) : log[i].name = tools_plan[i].name
        /\ Len(results.tools_executed) + Len(results.errors) = Len(log)
        /\ Len(results.errors) = Cardinality({i \in 1..Len(log) : log[i].raised})
        /\ (pc = "done" => Len(log) = Len(tools_plan))

\* A run of the main loop has ended with a step that raised followed by a step
\* that was handled all the same
C2_Witness ==
    /\ mode = "llm" /\ pc = "done" /\ ~snap.only_places
    /\ \E i \in 1..Len(log) : log[i].raised /\ i < Len(log) /\ ~log[i + 1].raised

\* C3: every tool invocation that failed during the run has its message in
\* the errors list of the results returned.
C3_FailuresReported ==
    pc = "done" =>
        Cardinality({i \in 1..Len(invoked) : ~invoked[i].ok}) <= Len(results.errors)

\* The value the run has merged so far for a path under context or slots
InRun(path, res) ==
    IF path # <<>> /\ path[1] = Key("context") THEN Walk(Dict(res.context), Tail(path))
    ELSE IF path # <<>> /\ path[1] = Key("slots") THEN Walk(Dict(res.slots), Tail(path))
    ELSE Miss

\* C4: an argument that is one ${context...} or ${slots...} expression whose
\* path an earlier step of the run has merged into the results is dispatched
\* as that merged value.
C4_ResolvesFromRun ==
    [][Handling /\ log' # log =>
         \A k \in DOMAIN tools_plan[idx].args :
            LET v == tools_plan[idx].args[k] IN
            (/\ v.t = "str" /\ Len(v.s) = 1 /\ IsDollar(v.s[1])
             /\ InRun(v.s[1].path, results).ok
             /\ InRun(v.s[1].path, results).v # None)
            => Last(log').args[k] = InRun(v.s[1].path, results).v]_vars

\* The part stands in a string value as written
Holds(value, part) == value.t = "str" /\ \E j \in 1..Len(value.s) : value.s[j] = part

\* What the resolver finds for a path
Found(p) == lookup_path(p.path, world_state, current_slots, results)

\* C5: a string that is exactly one ${path} (surrounding blanks aside) whose
\* path resolves yields the value in its native type; a ${path} inside larger
\* text yields a string with the value's string form in its place; a string
\* with {{path}} yields a string; a value without placeholders comes back
\* unchanged.
C5_Typing ==
    pc = "substituted" =>
        /\ substIn.t # "str" => substOut = substIn
        /\ substIn.t = "str" =>
            LET s == substIn.s IN
            /\ (\A i \in 1..Len(s) : s[i].k # "ph") => substOut = substIn
            /\ (FullDollar(s) /\ Found(Strip(s)[1]) # None) => substOut = Found(Strip(s)[1])
            /\ (HasDollar(s) /\ ~FullDollar(s)) =>
                 /\ substOut.t = "str"
                 /\ \A i \in 1..Len(s) :
                       (IsDollar(s[i]) /\ Found(s[i]) # None) => ~Holds(substOut, s[i])
            /\ HasBrace(s) => substOut.t = "str"

\* No pass of the lookup completes for the path
Unresolvable(path) ==
    /\ ~Walk(Dict(results.slots), path).ok
    /\ ~Walk(Dict(current_slots), path).ok
    /\ ~Walk(WorldStateValue(world_state), path).ok

\* C6: a placeholder whose path matches in none of the three sources stays in
\* the argument as written, the step is dispatched with it, and the errors
\* list grows only if the dispatched step itself raises.
C6_FailSoft ==
    [][Handling =>
         /\ Len(log') = Len(log) + 1
         /\ Last(log').name = tools_plan[idx].name
         /\ \A k \in DOMAIN tools_plan[idx].args :
               LET v == tools_plan[idx].args[k] IN
               v.t = "str" =>
                  \A i \in 1..Len(v.s) :
                     (v.s[i].k = "ph" /\ Unresolvable(v.s[i].path)) =>
                        /\ k \in DOMAIN Last(log').args
                        /\ Holds(Last(log').args[k], v.s[i])
         /\ (~Last(log').raised => results'.errors = results.errors)]_vars

\* A step went out with a placeholder on a non-numeric index and one with a
\* placeholder on an index past the end of the list, and neither raised
C6_Witness ==
    /\ \E i \in 1..Len(log) :
          /\ log[i].mode = "llm" /\ log[i].name = "Conversation" /\ ~log[i].raised
          /\ Holds(log[i].args["message"], Dollar(<<Key("context"), At("places", BadIndex)>>))
    /\ world_state.context # EmptyDict
    /\ results.errors = <<>>
    /\ results.tools_executed = <<"Conversation">>

QueryDirections(step) == step.name = "Directions" /\ "query" \in DOMAIN step.args

\* The Directions step of rule 1 after the rewrite
Rewritten(step) ==
    Step("Directions",
         Put(Pop(Pop(step.args, "query"), "destination"), "destinationPlaceId", FirstPlaceId))

\* C7 as stated: for the raw plan [Directions(query=Q)] the patched plan is
\* exactly [PlacesSearch(query=Q, rankBy="distance", maxResults=5),
\* Directions(destinationPlaceId="${context.places.results[0].placeId}")].
C7_ExactlyTwoSteps ==
    (Patched /\ Len(snap.raw) = 1 /\ QueryDirections(snap.raw[1])) =>
        tools_plan = <<PlacesStep(snap.raw[1].args["query"]), Rewritten(snap.raw[1])>>

\* C7: a plan ending in a Directions step with a query Q leaves rule 1 ending
\* in the rewritten Directions step, with a PlacesSearch step for Q (rankBy
\* distance, maxResults 5) right before it unless the plan had a PlacesSearch
\* step already; for the raw plan [Directions(query=Q)] the patched plan ends
\* in that PlacesSearch step and the rewritten Directions step, the
\* PlacesSearch step carries the origin's coordinates as near or else has a
\* Geolocate step before it, and every step before it was added by a patch.
C7_SplitWithNear ==
    (Patched /\ QueryDirections(Last(snap.raw))) =>
        LET raw == snap.raw
            a == snap.autopatched
            n == Len(snap.autopatched)
            Q == Last(snap.raw).args["query"]
            t == tools_plan
            m == Len(tools_plan)
        IN /\ n >= 1 /\ a[n] = Rewritten(Last(raw))
           /\ ~HasStep(raw, "PlacesSearch") => (n >= 2 /\ a[n - 1] = PlacesStep(Q))
           /\ HasStep(raw, "PlacesSearch") =>
                 Len(NotNamed(a, "PlacesSearch")) - Len(NotNamed(raw, "PlacesSearch"))
                     = Len(a) - Len(raw)
           /\ Len(raw) = 1 =>
                 /\ m >= 2 /\ t[m] = Rewritten(raw[1])
                 /\ t[m - 1].name = "PlacesSearch"
                 /\ Pop(t[m - 1].args, "near") = PlacesStep(Q).args
                 /\ IF HasCoords(world_state.slots.origin)
                    THEN Get(t[m - 1].args, "near")
                            = Dict([lat |-> VGet(world_state.slots.origin, "lat"),
                                    lng |-> VGet(world_state.slots.origin, "lng")])
                    ELSE /\ "near" \notin DOMAIN t[m - 1].args
                         /\ HasStep(SubSeq(t, 1, m - 2), "Geolocate")
                 /\ \A i \in 1..(m - 2) :
                       t[i].name \in {"Geocode", "Geolocate", "ReverseGeocode"}

\* [Directions(query=Q)] has been patched with the origin's coordinates known
\* and a destination named in the utterance
C7_Witness ==
    /\ Patched /\ Len(snap.raw) = 1 /\ QueryDirections(snap.raw[1])
    /\ HasCoords(world_state.slots.origin)
    /\ Len(tools_plan) = 3 /\ tools_plan[1].name = "Geocode"
    /\ "near" \in DOMAIN tools_plan[2].args

\* C8 as stated: a plan with a Directions step carrying a query has
\* PlacesSearch invoked with that query, Directions invoked afterwards, and
\* the places results in the context returned.
SearchedThenRouted(Q) ==
    /\ \E i, j \in 1..Len(invoked) :
          /\ i < j
          /\ invoked[i].tool = "PlacesSearch" /\ Get(invoked[i].args, "query") = Q
          /\ invoked[j].tool = "Directions"
    /\ \E i \in 1..Len(log) :
          /\ log[i].name = "PlacesSearch"
          /\ VGet(VGet(log[i].out, "context"), "places") # None
          /\ Get(results.context, "places") = VGet(VGet(log[i].out, "context"), "places")

C9_GeolocateThenReverseGeocode ==
    (Patched /\ IsWhereAmI(query)) =>
        /\ Len(tools_plan) >= 2
        /\ tools_plan[1].name = "Geolocate"
        /\ tools_plan[2].name = "ReverseGeocode"

\* C9: for a where-am-I utterance the patched plan starts with its only
\* Geolocate step and has a ReverseGeocode step after it, immediately after it
\* when the plan had no ReverseGeocode step of its own.
C9_GeolocateFirst ==
    (Patched /\ IsWhereAmI(query)) =>
        /\ Len(tools_plan) >= 2
        /\ tools_plan[1] = GeolocateStep
        /\ \A i \in 2..Len(tools_plan) : tools_plan[i].name # "Geolocate"
        /\ \E i \in 2..Len(tools_plan) : tools_plan[i].name = "ReverseGeocode"
        /\ ~HasStep(snap.guarded, "ReverseGeocode") =>
              tools_plan[2] = Step("ReverseGeocode", EmptyDict)
        /\ NotNamed(SubSeq(tools_plan, 2, Len(tools_plan)), "ReverseGeocode")
              = NotNamed(NotNamed(snap.guarded, "Geolocate"), "ReverseGeocode")

\* A where-am-I plan that had Geolocate, but not first, and no ReverseGeocode
C9_Witness ==
    /\ Patched /\ IsWhereAmI(query)
    /\ ~HasStep(snap.guarded, "ReverseGeocode")
    /\ HasStep(snap.guarded, "Geolocate")
    /\ snap.guarded[1].name # "Geolocate"
    /\ Len(tools_plan) >= 3

\* The coordinate-less Weather steps of a plan
Coordless(plan) ==
    {i \in 1..Len(plan) :
        plan[i].name = "Weather" /\ ~Truthy(Get(plan[i].args, "coordinates"))}

\* C10: for a weather-near-me utterance every Weather step without
\* coordinates has a Geolocate step before it in the patched plan, and
\* immediately before it when the plan had no Geolocate step ahead of its
\* first Weather step, whatever the origin and destination slots hold.
C10_GeolocateBeforeWeather ==
    (Patched /\ WeatherNearMe(query)) =>
        /\ \A i \in Coordless(tools_plan) :
              HasStep(SubSeq(tools_plan, 1, i - 1), "Geolocate")
        /\ \A i \in Coordless(snap.whereami) :
              (i = MinOf(Coordless(snap.whereami))
               /\ ~HasStep(SubSeq(snap.whereami, 1, i - 1), "Geolocate"))
              => /\ tools_plan[i] = GeolocateStep
                 /\ tools_plan[i + 1] = snap.whereami[i]

\* Weather near me, with Queens remembered as the destination and the origin
\* located: Geolocate was put right before the Weather step, after a Geocode
C10_Witness ==
    /\ Patched /\ WeatherNearMe(query)
    /\ VGet(world_state.slots.destination, "name") = Queens
    /\ HasCoords(world_state.slots.origin)
    /\ Len(tools_plan) = 3
    /\ tools_plan[1].name = "Geocode"
    /\ tools_plan[2] = GeolocateStep
    /\ tools_plan[3].name = "Weather"

\* ---------------------------------------------------------------------------
\* PlacesSearch steps without `near` (agents.py 768-788)

LacksNear(step) ==
    resolve_tool_name(step.name) = "PlacesSearch" /\ ~Truthy(Get(step.args, "near"))

\* How many of the first i steps of the plan lack `near`
LackingUpTo(plan, i) == Cardinality({j \in 1..i : LacksNear(plan[j])})

NearFilled(a, b, origin) ==
    /\ Len(b) = Len(a)
    /\ Len(NotNamed(b, "Geolocate")) = Len(NotNamed(a, "Geolocate"))
    /\ \A i \in 1..Len(a) :
          IF LacksNear(a[i])
          THEN /\ b[i].name = a[i].name
               /\ b[i].args = Put(a[i].args, "near",
                                  Dict([lat |-> VGet(origin, "lat"),
                                        lng |-> VGet(origin, "lng")]))
          ELSE b[i] = a[i]

GeolocateInserted(a, b) ==
    /\ Len(b) = Len(a) + LackingUpTo(a, Len(a))
    /\ \A i \in 1..Len(a) :
          /\ b[i + LackingUpTo(a, i)] = a[i]
          /\ LacksNear(a[i]) => b[i + LackingUpTo(a, i) - 1] = GeolocateStep

\* C11: rule 3 of the autopatch: every PlacesSearch step lacking `near` gets
\* the origin slot's coordinates as `near`, with no Geolocate step added, when
\* the origin slot has coordinates; otherwise exactly one Geolocate step is
\* put immediately before it. Every other step is left as it was.
C11_NearOrGeolocate ==
    Patched =>
        IF HasCoords(Get(world_state.slots, "origin"))
        THEN NearFilled(snap.autopatched, snap.near, Get(world_state.slots, "origin"))
        ELSE GeolocateInserted(snap.autopatched, snap.near)

\* Two searches, one with `near` and one without, and no located origin:
\* the Geolocate stands between them
C11_Witness ==
    /\ Patched
    /\ ~HasCoords(Get(world_state.slots, "origin"))
    /\ Len(snap.autopatched) = 2
    /\ ~LacksNear(snap.autopatched[1]) /\ LacksNear(snap.autopatched[2])
    /\ Len(snap.near) = 3
    /\ snap.near[2] = GeolocateStep

\* ---------------------------------------------------------------------------
\* Data flow between the steps of one run (agents.py 1096-1109)

\* The calls the step handled last has made
NewCalls == SubSeq(invoked', Len(invoked) + 1, Len(invoked'))

CallsOf(calls, tool) == {i \in 1..Len(calls) : calls[i].tool = tool}

\* The plan of Scenario E as the planner wrote it
ScenarioE ==
    /\ Len(snap.raw) = 2
    /\ snap.raw[1].name = "Geocode"
    /\ Get(snap.raw[1].args, "slot") = Text(<<"destination">>)
    /\ snap.raw[2] = Step("Weather", EmptyDict)

\* The successful Geocode steps of the run so far that wrote the destination slot
GeocodedDestination(l) ==
    {j \in 1..Len(l) : /\ l[j].name = "Geocode" /\ ~l[j].raised
                       /\ "destination" \in DOMAIN VGet(l[j].out, "slots").d}

\* The slot snapshot holds every slot the results hold
SnapshotCurrent ==
    \A k \in DOMAIN results.slots :
        k \in DOMAIN current_slots /\ current_slots[k] = results.slots[k]

\* C12: in the plan [Geocode(address, slot destination), Weather()], once the
\* Geocode step has succeeded, the weather tool is called with the latitude
\* and longitude that step returned for the destination slot; and after every
\* step that succeeds the slot snapshot the next step sees holds every slot of
\* the results, while a step that fails takes no slot out of the snapshot.
C12_DataFlow ==
    /\ [][(/\ Handling /\ ScenarioE /\ log' # log
            /\ Last(log').name = "Weather"
            /\ GeocodedDestination(log) # {})
           => /\ CallsOf(NewCalls, "Weather") # {}
              /\ \A i \in CallsOf(NewCalls, "Weather") :
                 \A j \in GeocodedDestination(log) :
                    /\ NewCalls[i].args.lat = VGet(VGet(VGet(log[j].out, "slots"),
                                                        "destination"), "lat")
                    /\ NewCalls[i].args.lng = VGet(VGet(VGet(log[j].out, "slots"),
                                                        "destination"), "lng")]_vars
    /\ [][(Handling /\ log' # log)
           => IF Last(log').raised
              THEN \A k \in DOMAIN current_slots :
                      /\ k \in DOMAIN current_slots'
                      /\ \/ current_slots'[k] = current_slots[k]
                         \/ /\ k \in DOMAIN results'.slots
                            /\ current_slots'[k] = results'.slots[k]
              ELSE SnapshotCurrent']_vars

\* Scenario E has run: the weather tool was called with the coordinates of
\* the geocoded destination, which are not those the Blackboard remembered
C12_Witness ==
    /\ ScenarioE /\ pc = "done"
    /\ GeocodedDestination(log) # {}
    /\ HasCoords(Get(world_state.slots, "destination"))
    /\ \E i \in CallsOf(invoked, "Weather") :
          /\ invoked[i].ok
          /\ invoked[i].args.lat = Num(41) /\ invoked[i].args.lng = Num(-73)

\* ---------------------------------------------------------------------------
\* Weather results side by side (agents.py 1278-1288)

WeatherKeys(context) == {k \in DOMAIN context : IsWeatherKey(k)}

\* The Weather steps of the run so far that returned a result
WeatherDone(l) == {j \in 1..Len(l) : l[j].name = "Weather" /\ ~l[j].raised}

\* label-or-slot-or-coords of a Weather step, from its arguments and from the
\* coordinates the weather tool was called with
WeatherBase(args, call) ==
    IF Truthy(Or(Get(args, "label"), Get(args, "tag")))
    THEN "lastWeather_" \o StrKey(Or(Get(args, "label"), Get(args, "tag")))
    ELSE IF Truthy(Get(args, "slot")) THEN "lastWeather_" \o StrKey(Get(args, "slot"))
    ELSE "lastWeather_" \o KeyText(call.args.lat) \o "_" \o KeyText(call.args.lng)

\* key is base, or base_i for the least i >= 1 whose key is free, base being taken
Disambiguated(key, base, context) ==
    IF base \notin DOMAIN context THEN key = base
    ELSE \E i \in 1..(Cardinality(DOMAIN context) + 1) :
            /\ key = base \o "_" \o ToString(i)
            /\ \A j \in 1..(i - 1) : (base \o "_" \o ToString(j)) \in DOMAIN context

\* C13: a Weather step that succeeds adds exactly one context entry, under a
\* key lastWeather_<label-or-slot-or-coords>, with _1, _2, ... appended when
\* the key is taken, that the results did not hold before; no entry the
\* results held is changed; so the results hold as many lastWeather_ entries as
\* Weather steps have succeeded.
C13_WeatherKeys ==
    /\ [][(/\ pc = "loop" /\ log' # log
            /\ Last(log').name = "Weather" /\ ~Last(log').raised)
           => /\ \A k \in DOMAIN results.context :
                    k \in DOMAIN results'.context
                    /\ results'.context[k] = results.context[k]
              /\ \E key \in WeatherKeys(results'.context) :
                    /\ key \notin DOMAIN results.context
                    /\ WeatherKeys(results'.context) = WeatherKeys(results.context) \cup {key}
                    /\ \E i \in CallsOf(NewCalls, "Weather") :
                          Disambiguated(key, WeatherBase(Last(log').args, NewCalls[i]),
                                        results.context)]_vars
    /\ [](Cardinality(WeatherKeys(results.context)) = Cardinality(WeatherDone(log)))

\* Three Weather steps of one label have succeeded in one run
C13_Witness ==
    /\ Cardinality(WeatherDone(log)) = 3
    /\ {"lastWeather_origin", "lastWeather_origin_1", "lastWeather_origin_2"}
          \subseteq DOMAIN results.context

\* ---------------------------------------------------------------------------
\* The overwrite decision (agents.py 620-645)

\* What the slot holds: the value in the results, else the one in the snapshot
Existing == Or(Get(results.slots, substIn.slot_name), Get(current_slots, substIn.slot_name))

GeocodeWritesOrigin == substIn.tool_name = "Geocode" /\ substIn.slot_name = "origin"
UserProvided == Truthy(VGet(substIn.new_slot, "__user_provided"))
NoExisting == ~Truthy(Existing)
GeolocateVsGeocode == VGet(Existing, "__source") = Text(<<"geolocate">>) /\ Geocoded(substIn.new_slot)

\* C14: the overwrite decision follows the priority order: Geocode writing
\* origin overwrites; a new value flagged __user_provided overwrites; no
\* existing value overwrites; existing provenance geolocate against new
\* provenance geocode is rejected; everything else overwrites. So the decision
\* is a rejection exactly when the fourth case holds and none of the first
\* three does.
C14_OverwritePriority ==
    pc = "decided" =>
        /\ GeocodeWritesOrigin => substOut = Bool(TRUE)
        /\ ~GeocodeWritesOrigin /\ UserProvided => substOut = Bool(TRUE)
        /\ ~GeocodeWritesOrigin /\ ~UserProvided /\ NoExisting => substOut = Bool(TRUE)
        /\ (substOut = Bool(FALSE))
              <=> (/\ GeolocateVsGeocode
                   /\ ~GeocodeWritesOrigin /\ ~UserProvided /\ ~NoExisting)

\* A geocoded origin meets a geolocated one, written by the Geocode action:
\* the first case decides, and the value is taken
C14_Witness ==
    /\ pc = "decided"
    /\ GeocodeWritesOrigin /\ GeolocateVsGeocode /\ ~UserProvided
    /\ substOut = Bool(TRUE)

\* ---------------------------------------------------------------------------
\* The slot a Geocode step writes (agents.py 1202-1224)

\* The name of the step after step i of the plan, "" after the last one
NextName(plan, i) == IF i < Len(plan) THEN plan[i + 1].name ELSE ""

\* dest_slot has no name, no lat and no lng
EmptySlot(v) ==
    ~(Truthy(VGet(v, "name")) \/ Truthy(VGet(v, "lat")) \/ Truthy(VGet(v, "lng")))

\* The slot the step is to write: its `slot` argument when it has one,
\* otherwise destination before a Weather or Directions step when the
\* destination slot is empty, otherwise origin
TargetSlot(args, cs, next_name) ==
    IF Truthy(Get(args, "slot")) THEN StrKey(Get(args, "slot"))
    ELSE IF next_name \in {"Weather", "Directions"}
            /\ EmptySlot(Or(Get(cs, "destination"), Dict(EmptyDict)))
    THEN "destination"
    ELSE "origin"

\* C15: a Geocode step that succeeds returns a value for exactly the slot
\* named by its `slot` argument when it has one; otherwise for destination
\* when the next step is Weather or Directions and the destination slot is
\* empty; otherwise for origin.
C15_GeocodeTargetSlot ==
    [][(/\ Handling /\ log' # log
        /\ Last(log').name = "Geocode" /\ ~Last(log').raised)
       => DOMAIN VGet(Last(log').out, "slots").d
             = {TargetSlot(Last(log').args, current_slots, NextName(tools_plan, idx))}]_vars

\* ---------------------------------------------------------------------------
\* Where a Weather step takes its coordinates from (agents.py 1240-1276)

\* The sources a Weather step finds without calling anything, in order:
\* lat/lng, coordinates/location (a record, or the slot a string names), the
\* destination slot, the slot the `slot` argument names
Sources(args, cs) ==
    LET coords == Or(Get(args, "coordinates"), Get(args, "location"))
    IN << Dict([lat |-> Get(args, "lat"), lng |-> Get(args, "lng")]),
          IF coords.t = "str" THEN Get(cs, StrKey(coords)) ELSE coords,
          Get(cs, "destination"),
          IF Truthy(Get(args, "slot")) THEN Get(cs, StrKey(Get(args, "slot"))) ELSE None >>

Supplying(srcs) == {i \in 1..Len(srcs) : srcs[i].t = "dict" /\ HasCoords(srcs[i])}

\* Every call of the weather tool the step made was for the coordinates of v,
\* and it made one
WeatherAt(calls, v) ==
    /\ CallsOf(calls, "Weather") # {}
    /\ \A i \in CallsOf(calls, "Weather") :
          calls[i].args.lat = VGet(v, "lat") /\ calls[i].args.lng = VGet(v, "lng")

\* The step called routine `tool` first; when that call failed the step
\* failed without calling the weather tool
Via(calls, tool, raised, v) ==
    /\ CallsOf(calls, tool) # {}
    /\ IF \A i \in CallsOf(calls, tool) : calls[i].ok
       THEN WeatherAt(calls, v)
       ELSE raised /\ CallsOf(calls, "Weather") = {}

FromOrigin(calls, raised, origin, located) ==
    IF HasCoords(origin) /\ ~Geocoded(origin)
    THEN CallsOf(calls, "Geolocate") = {} /\ WeatherAt(calls, origin)
    ELSE Via(calls, "Geolocate", raised, located)

FromFirstSource(calls, raised, args, cs, srcs, located, geocoded) ==
    IF Supplying(srcs) # {}
    THEN /\ WeatherAt(calls, srcs[MinOf(Supplying(srcs))])
         /\ CallsOf(calls, "Geolocate") = {} /\ CallsOf(calls, "Geocode") = {}
    ELSE IF Truthy(Get(args, "address"))
    THEN CallsOf(calls, "Geolocate") = {} /\ Via(calls, "Geocode", raised, geocoded)
    ELSE /\ CallsOf(calls, "Geocode") = {}
         /\ FromOrigin(calls, raised, Get(cs, "origin"), located)

\* C16: a Weather step calls the weather tool with the coordinates of the
\* first source that supplies both of them: its lat/lng arguments, its
\* coordinates/location argument, the destination slot, the slot its `slot`
\* argument names, the geocoded `address` argument, the origin slot, with a
\* Geolocate before it only when origin lacks coordinates or was geocoded.
\* When no source supplies them the step fails, an error is recorded and the
\* weather tool is not called.
C16_FirstSourceWins ==
    [][(Handling /\ log' # log /\ Last(log').name = "Weather")
       => /\ FromFirstSource(NewCalls, Last(log').raised, Last(log').args, current_slots,
                             Sources(Last(log').args, current_slots),
                             VGet(VGet(GeolocateOut(toolcfg), "slots"), "origin"),
                             VGet(VGet(GeocodeOut(Queens, "origin", toolcfg), "slots"),
                                  "origin"))
          /\ Last(log').raised => Len(results'.errors) = Len(results.errors) + 1]_vars

\* ---------------------------------------------------------------------------
\* The places-only shortcut (agents.py 1036-1078)

\* A plan that is one PlacesSearch step, or one followed by a Directions step
SolelyPlaces(plan) ==
    /\ Len(plan) \in {1, 2}
    /\ plan[1].name = "PlacesSearch"
    /\ Len(plan) = 2 => plan[2].name = "Directions"

\* C17: the places-only mode is entered only for a patched plan that is one
\* PlacesSearch step, optionally followed by one Directions step, and an
\* utterance without a directions keyword; a run in that mode invokes no tool
\* but PlacesSearch and returns the templated summary; a run of any other
\* plan handles every step of the plan.
C17_PlacesOnly ==
    Patched =>
        /\ snap.only_places => SolelyPlaces(tools_plan) /\ ~WantsDirections(query)
        /\ (snap.only_places /\ pc = "done")
              => /\ \A i \in 1..Len(invoked) : invoked[i].tool = "PlacesSearch"
                 /\ "final_response" \in DOMAIN results.context
        /\ (~snap.only_places /\ pc = "done") => Len(log) = Len(tools_plan)

\* ---------------------------------------------------------------------------
\* The stale-destination guard (agents.py 817-884)

\* Step i of the plan is a Geocode step that writes the destination slot
TargetsDestination(plan, i, cs) ==
    /\ plan[i].name = "Geocode"
    /\ TargetSlot(plan[i].args, cs, NextName(plan, i)) = "destination"

\* The oracle said to update and named an address
OracleAddress(answer) ==
    IF answer.t = "dict" /\ Truthy(VGet(answer, "update_destination"))
       /\ Truthy(VGet(answer, "address"))
    THEN Plain(VGet(answer, "address")) ELSE <<>>

\* The address the guard is to work with: the oracle's, or the heuristic's
\* when the oracle gave no answer
Yielded(q, answer) ==
    IF answer = None THEN Heuristic(extract_address_from_query(q))
    ELSE OracleAddress(answer)

InRemembered(cand, cs) ==
    /\ Truthy(VGet(Get(cs, "destination"), "name"))
    /\ Contains(Lower(Plain(VGet(Get(cs, "destination"), "name"))), Lower(cand))

Guarded(a, b, cand, cs) ==
    IF \E i \in 1..Len(a) : TargetsDestination(a, i, cs)
    THEN b = a
    ELSE IF cand # <<>> /\ InRemembered(cand, cs)
    THEN b = a
    ELSE (HasStep(a, "Directions") /\ cand # <<>>)
            => b = <<GeocodeStep(cand, "destination")>> \o a

\* C18: rule 6 of the autopatch: when the plan has a Directions step and no
\* Geocode step that writes the destination slot, and the oracle, or the
\* "to X" heuristic when the oracle gives no answer, yields an address that is
\* not a case-insensitive substring of the remembered destination name, a
\* Geocode step for that address and the destination slot is put at the front
\* of the plan; when the address is such a substring, or a Geocode step that
\* writes the destination slot is there, the plan is left as it is.
C18_StaleDestination ==
    [][snap' # snap
       => Guarded(snap'.near, snap'.guarded, Yielded(query, oracle'), current_slots)]_vars

\* ---------------------------------------------------------------------------
\* The provenance of a geolocated origin (location_tool.py 95-156)

TaggedGeolocate(slots) ==
    /\ "origin" \in DOMAIN slots
    /\ VGet(slots["origin"], "__source") = Text(<<"geolocate">>)

\* C19: after a Geolocate step that succeeds, the origin value in the results
\* and in the slot snapshot carries the provenance tag geolocate.
C19_GeolocateTagged ==
    [][(/\ Handling /\ log' # log
        /\ Last(log').name = "Geolocate" /\ ~Last(log').raised)
       => TaggedGeolocate(results'.slots) /\ TaggedGeolocate(current_slots')]_vars

\* ---------------------------------------------------------------------------
\* What a merge does to the context (agents.py 276-297)

ContextKeys(out) ==
    IF out.t = "dict" /\ VGet(out, "context").t = "dict" THEN DOMAIN VGet(out, "context").d
    ELSE {}

OtherKeys(out) == IF out.t = "dict" THEN (DOMAIN out.d) \ {"slots", "context"} ELSE {}

\* The context keys the merge of `out`, returned by `action`, writes
Written(action, out) == ContextKeys(out) \cup {action \o "_" \o K : K \in OtherKeys(out)}

\* The context after the merge holds what `out` carries
Carries(context, action, out) ==
    /\ \A k \in ContextKeys(out) : k \in DOMAIN context /\ context[k] = VGet(out, "context").d[k]
    /\ \A K \in OtherKeys(out) :
          /\ (action \o "_" \o K) \in DOMAIN context
          /\ context[action \o "_" \o K] = out.d[K]

\* The output of the geolocation a step ran on the way and merged at once
OnTheWay(calls, action) ==
    IF action # "Geolocate" /\ \E i \in CallsOf(calls, "Geolocate") : calls[i].ok
    THEN GeolocateOut(toolcfg) ELSE None

\* C20: the merge of the output of a step that succeeded writes each key of
\* the output's `context` over the same key of the results' context, stores
\* every other top-level key K of the output, `slots` apart, under
\* <action>_K, and changes no other key of the context (the output of a
\* geolocation the step ran on the way is merged by the same rule).
C20_MergeContext ==
    [][(pc = "loop" /\ log' # log /\ ~Last(log').raised)
       => /\ Carries(results'.context, Last(log').name, Last(log').out)
          /\ \A k \in DOMAIN results.context : k \in DOMAIN results'.context
          /\ \A k \in (DOMAIN results'.context)
                        \ Written(Last(log').name, Last(log').out) :
                \/ k \in DOMAIN results.context /\ results'.context[k] = results.context[k]
                \/ /\ k \in Written("Geolocate", OnTheWay(NewCalls, Last(log').name))
                   /\ Carries(results'.context, "Geolocate",
                              OnTheWay(NewCalls, Last(log').name))]_vars

\* A second search has been merged over the places of the first: the places
\* are the new ones, and the other keys of the output are under PlacesSearch_K
C20_Witness ==
    /\ pc = "loop" /\ mode = "llm" /\ log # <<>>
    /\ Last(log).name = "PlacesSearch" /\ ~Last(log).raised
    /\ \E j \in 1..(Len(log) - 1) :
          /\ log[j].name = "PlacesSearch" /\ ~log[j].raised
          /\ VGet(VGet(log[j].out, "context"), "places")
                # VGet(VGet(Last(log).out, "context"), "places")
    /\ "places" \in DOMAIN results.context
    /\ results.context["places"] = VGet(VGet(Last(log).out, "context"), "places")
    /\ OtherKeys(Last(log).out) # {}
    /\ \A K \in OtherKeys(Last(log).out) : ("PlacesSearch_" \o K) \in DOMAIN results.context

\* ---------------------------------------------------------------------------
\* Merging an output twice (agents.py 276-297)

\* C21: merging the same tool output into the results a second time leaves
\* the context and the slots of the results exactly as the first merge left
\* them.
C21_MergeIdempotent ==
    pc = "remerged" =>
        /\ results.context = substOut.context
        /\ results.slots = substOut.slots

\* An output has been merged twice over results that held another value under
\* one of its context keys or slots, so the first merge did change them
C21_Witness ==
    /\ pc = "remerged"
    /\ substIn.out.t = "dict"
    /\ \E o \in MergedBefore :
          /\ o # results
          /\ results = merge_tool_output(o, substIn.tool_name, substIn.out)
          /\ \/ \E k \in ContextKeys(substIn.out) :
                   k \in DOMAIN o.context /\ o.context[k] # results.context[k]
             \/ \E k \in DOMAIN o.slots : o.slots[k] # results.slots[k]

\* ---------------------------------------------------------------------------
\* Two autopatch passes (agents.py 660-1031)

C23_UnknownIsNoOp ==
    [][(Handling /\ log' # log /\ Last(log').name \notin KnownTools)
       => /\ ~Last(log').raised /\ Last(log').out = None
          /\ NewCalls = <<>>
          /\ results'.slots = results.slots
          /\ results'.context = results.context
          /\ results'.errors = results.errors
          /\ idx' = idx + 1]_vars

\* An unknown step has been handled and the step after it has called its tool
C23_Witness ==
    /\ pc = "done" /\ mode = "llm"
    /\ \E j \in 1..(Len(log) - 1) :
          /\ log[j].name \notin KnownTools
          /\ log[j + 1].name = "Geolocate" /\ ~log[j + 1].raised
    /\ \E i \in 1..Len(invoked) : invoked[i].tool = "Geolocate" /\ invoked[i].ok

\* ---------------------------------------------------------------------------
\* A plan without steps (agents.py 338-343)

C25_GivenStepsUntouched ==
    snap.raw # <<>> => snap.given = snap.raw

-----------------------------------------------------------------------------
(* The Blackboard under the coordinator's delta merges *)

\* deepMerge of utils/state.py: dicts are merged key by key, anything else
\* replaces what the base holds
RECURSIVE deepMerge(_, _)
deepMerge(base, patch) ==
    [k \in (DOMAIN base) \cup (DOMAIN patch) |->
        IF k \notin DOMAIN patch THEN base[k]
        ELSE IF patch[k].t = "dict" /\ Get(base, k).t = "dict"
        THEN Dict(deepMerge(base[k].d, patch[k].d))
        ELSE patch[k]]

\* Slots(**slots): the four fields, each by its default when it is not given;
\* keys that are no field of the model are ignored (contracts.py 17-21)
SlotsModel(given) ==
    [k \in {"origin", "destination", "departureTime", "modePrefs"} |->
        IF k \in DOMAIN given THEN given[k] ELSE SlotsOf(NoPlace, NoPlace)[k]]

\* Field validation of Slots (contracts.py 17-21)
SlotsValid(v) ==
    /\ v.t = "dict"
    /\ SlotsModel(v.d).origin.t = "dict"
    /\ SlotsModel(v.d).destination.t = "dict"
    /\ SlotsModel(v.d).departureTime.t \in {"none", "str"}
    /\ SlotsModel(v.d).modePrefs.t = "list"

\* WorldState(): the Blackboard of a new turn, as model_dump() gives it
\* (contracts.py 23-45; coordinator.py 189-190)
NewWorldState(q) ==
    [query |-> Dict([raw |-> Text(q)]),
     slots |-> Dict(SlotsOf(NoPlace, NoPlace)),
     context |-> Dict([execution_result |-> Dict(EmptyDict), final_response |-> None]),
     errors |-> List(<<>>)]

\* Field validation of WorldState (contracts.py 31-44)
WorldStateValid(merged) ==
    /\ merged.query.t = "dict" /\ merged.context.t = "dict" /\ merged.errors.t = "list"
    /\ SlotsValid(merged.slots)

\* WorldState(**merged): the fields of the model, slots as a Slots
WorldStateOf(merged) ==
    [query |-> merged.query, slots |-> Dict(SlotsModel(merged.slots.d)),
     context |-> merged.context, errors |-> merged.errors]

\* delta.get("deltaState", delta)
delta_state(delta) == IF "deltaState" \in DOMAIN delta THEN delta.deltaState ELSE delta

\* A merge that replaces each top-level field by the delta's and builds no model
apply_delta_replacing(ws, delta) ==
    [raised |-> FALSE, ws |-> Update(ws, delta_state(delta))]

\* A2ACoordinator._apply_delta (coordinator.py 329-334); raised: the
\* construction of the WorldState failed its validation
apply_delta(ws, delta) ==
    IF WorldStateValid(deepMerge(ws, delta_state(delta)))
    THEN [raised |-> FALSE, ws |-> WorldStateOf(deepMerge(ws, delta_state(delta)))]
    ELSE [raised |-> TRUE, ws |-> ws]

\* The delta of the except branch of the agent loop (coordinator.py 265-268)
ErrorDelta == [deltaState |-> [errors |-> List(<<Text(<<"Agent error">>)>>)]]

\* Deltas an agent can return
Deltas ==
    { EarlyDelta("no_plan"),
      [deltaState |-> [slots |-> Dict([origin |-> Located])]],
      [deltaState |-> [slots |-> Dict([origin |-> Dict([lat |-> Num(42)])])]],
      [deltaState |-> [slots |-> Dict([origin |-> Somewhere, near |-> Somewhere])]],
      [deltaState |-> [slots |-> Dict([destination |-> Remembered])]],
      [deltaState |-> [slots |-> Dict([destination |-> Dict([name |-> Text(<<"Main", " ", "St">>)])])]],
      [deltaState |-> [slots |-> Dict([near |-> Somewhere])]],
      [deltaState |-> [slots |-> Dict([departureTime |-> Text(<<"8am">>)])]],
      [deltaState |-> [slots |-> Dict(EmptyDict)]],
      [deltaState |-> [slots |-> Dict([origin |-> None])]],
      [deltaState |-> [slots |-> None]],
      [slots |-> Dict([destination |-> Dict([lat |-> Num(43)])]),
       context |-> Dict([final_response |-> Text(<<"ok">>)])] }

InitDelta ==
    /\ query \in {<<"hello">>}
    /\ world_state = NewWorldState(query)
    /\ substIn = None
    /\ substOut = None
    /\ pc = "blackboard"
    /\ steps = <<>> /\ tools_plan = <<>> /\ mode = "llm"
    /\ current_slots = EmptyDict
    /\ toolcfg = AnyCfg
    /\ results = EmptyResults
    /\ oracle = None /\ idx = 1 /\ fails = 0
    /\ invoked = <<>> /\ log = <<>> /\ snap = NoSnap

\* One agent's delta applied by the agent loop (coordinator.py 219-268):
\* when the merge raises, the Blackboard is kept and the error delta applied
ApplyDelta ==
    /\ pc = "blackboard"
    /\ \E delta \in Deltas :
       \E r \in {apply_delta(world_state, delta)} :
          /\ world_state' = IF r.raised THEN apply_delta(world_state, ErrorDelta).ws
                            ELSE r.ws
          /\ substIn' = delta
          /\ substOut' = Bool(r.raised)
    /\ UNCHANGED <<query, steps, tools_plan, oracle, current_slots, results, idx, pc, mode,
                   invoked, log, snap, toolcfg, fails>>

NextDelta == ApplyDelta

SpecDelta == InitDelta /\ [][NextDelta]_vars

\* C26: in every Blackboard reached from a new WorldState by delta merges,
\* deltas with other slot names and with partial location records included,
\* slots has an origin key and a destination key.
C26_SlotsKeepOriginAndDestination ==
    pc = "blackboard" =>
        /\ world_state.slots.t = "dict"
        /\ {"origin", "destination"} \subseteq DOMAIN world_state.slots.d

\* A delta that names another slot only has been merged into a Blackboard
\* whose origin came from a partial location record
C26_Witness ==
    /\ pc = "blackboard"
    /\ substIn = [deltaState |-> [slots |-> Dict([near |-> Somewhere])]]
    /\ substOut = Bool(FALSE)
    /\ world_state.slots.d.origin = Dict([name |-> None, lat |-> Num(42), lng |-> None])

\* ---------------------------------------------------------------------------
\* The weather patch and utterances without near-me phrasing (agents.py 1014-1031)

GeocodeThenWeather ==
    <<Step("Geocode", [address |-> Queens, slot |-> Text(<<"destination">>)]),
      Step("Weather", EmptyDict)>>

\* C27 as claimed: the weather patch fires only for a weather near-me/here
\* utterance; without that phrasing it inserts no Geolocate step, so the plan
\* it is given is the plan it returns.
C27_OnlyForNearMe ==
    (Patched /\ ~WeatherNearMe(query)) => tools_plan = snap.whereami

\* C27 as the code has it: without near-me/here phrasing the weather patch
\* leaves the plan alone exactly when every Weather step carries a coordinates
\* argument or a Geolocate step precedes the first one that does not;
\* otherwise it puts one Geolocate step immediately before that Weather step,
\* as in [Geocode(address, slot="destination"), Geolocate(), Weather()].
C27_NearMeOrNoCoordinates ==
    (Patched /\ ~WeatherNearMe(query)) =>
        IF Coordless(snap.whereami) = {}
           \/ HasStep(SubSeq(snap.whereami, 1, MinOf(Coordless(snap.whereami)) - 1),
                      "Geolocate")
        THEN tools_plan = snap.whereami
        ELSE /\ Len(tools_plan) = Len(snap.whereami) + 1
             /\ \A i \in 1..Len(snap.whereami) :
                   tools_plan[IF i < MinOf(Coordless(snap.whereami)) THEN i ELSE i + 1]
                     = snap.whereami[i]
             /\ tools_plan[MinOf(Coordless(snap.whereami))] = GeolocateStep

\* "hello" with [Geocode(Queens, slot="destination"), Weather()]: the patched
\* plan has a Geolocate step between the two
C27_Witness ==
    /\ Patched /\ ~WeatherNearMe(query)
    /\ snap.raw = GeocodeThenWeather /\ snap.whereami = GeocodeThenWeather
    /\ tools_plan = InsertAt(GeocodeThenWeather, 2, GeolocateStep)

\* ---------------------------------------------------------------------------
\* The destination of a Directions step rewritten to the first place
\* (agents.py 1290-1311, 723-736)

\* Places found by a PlacesSearch call made earlier in this run
PlacesFound ==
    IF \E i \in 1..Len(invoked) : invoked[i].tool = "PlacesSearch" /\ invoked[i].ok
    THEN VGet(VGet(Dict(results.context), "places"), "results")
    ELSE None

\* C28: when a Directions step carries destinationPlaceId and a PlacesSearch
\* step of the same run has returned at least one result, the Directions tool
\* is invoked with the place identifier of the first result as its
\* destination, not with the remembered destination slot or the empty text.
C28_RoutedToFirstPlace ==
    [][(/\ Handling /\ log' # log
        /\ Last(log').name = "Directions"
        /\ "destinationPlaceId" \in DOMAIN tools_plan[idx].args
        /\ Truthy(PlacesFound))
       => \A i \in CallsOf(NewCalls, "Directions") :
             NewCalls[i].args.destination = VGet(PlacesFound.l[1], "placeId")]_vars

\* ---------------------------------------------------------------------------
\* What a failing step leaves behind (agents.py 1159-1187, 1267-1276,
\* 1304-1311, 1111-1113)

\* C29: a step that raises, in its pre-pass or in its routine, leaves the
\* slots and the context of the results and the slot snapshot exactly as they
\* were before the step; its only change is one message appended to errors.
C29_FailedStepLeavesNoTrace ==
    [][(Handling /\ log' # log /\ Last(log').raised)
       => /\ results'.slots = results.slots
          /\ results'.context = results.context
          /\ current_slots' = current_slots
          /\ results'.errors = Append(results.errors, Failure(Last(log').name))
          /\ results'.tools_executed = results.tools_executed]_vars

\* ---------------------------------------------------------------------------
\* tools_executed against the tools the run called (agents.py 1091-1094,
\* 1051-1078, 1226-1238, 1313-1315)

\* The tools of the calls of the run, in the order they were made: all of
\* them, or those that returned
ToolsInvoked(returned_only) ==
    LET I == {i \in 1..Len(invoked) : ~returned_only \/ invoked[i].ok}
        nth(k) == CHOOSE i \in I : Cardinality({j \in I : j < i}) = k - 1
    IN [k \in 1..Cardinality(I) |-> invoked[nth(k)].tool]

\* C30: at the end of a run tools_executed lists exactly the tools that were
\* invoked during the run, in invocation order: the PlacesSearch of the
\* places-only shortcut and the Geolocate and Geocode calls made inside
\* another step included, and no action whose routine was not invoked.
C30_ToolsExecutedAreToolsInvoked ==
    pc = "done" =>
        \/ results.tools_executed = ToolsInvoked(FALSE)
        \/ results.tools_executed = ToolsInvoked(TRUE)

====
